---------------------------- MODULE Spec2Model ----------------------------
(***************************************************************************)
(* Coverage endpoint of the LoRa mesh planner: the HTTP handler, the two   *)
(* variants of generateCoveragePolygon (api/coverage.js, the basic one,    *)
(* and the time-boxed one with the 8 s budget and the 3 s request timer)   *)
(* and calculateCoverageInDirection, the ray march of one bearing.         *)
(*                                                                         *)
(* Units.  Distances are in hectometres (100 m), so the 0.5 km step is 5   *)
(* and 20 km is 200.  Power is in centiwatts (1.0 W = 100).  Decibels are  *)
(* in hundredths of a dB.  Angles are in degrees.                          *)
(*                                                                         *)
(* JavaScript runs every continuation to its next await without            *)
(* interruption, so one action is one such run: from the arrival of an     *)
(* event (request, response, timer) to the next suspension.                *)
(*                                                                         *)
(* Both files declare "const maxRange" in the body of a function whose     *)
(* parameter is maxRange, which a JavaScript engine rejects when it loads  *)
(* the file.  The model reads that constant as what it is assigned to,     *)
(* the maxRange field of the returned object, and the parameter as the     *)
(* range of the march.                                                     *)
(***************************************************************************)
EXTENDS Integers, Sequences, FiniteSets, TLC

VARIABLES
    variant,      \* "basic" (api/coverage.js) or "timeboxed" (8 s budget)
    terrain,      \* "flat": the provider only serves flat profiles; "any"
    req,          \* the HTTP request: method and raw parameters
    pc,           \* position of the handler / generateCoveragePolygon
    status,       \* HTTP status answered (0: none yet)
    body,         \* JSON body answered
    power,        \* numPower, in centiwatts
    rangeArg,     \* numMaxRange as passed to generateCoveragePolygon
    rangeLimit,   \* maxRange handed to calculateCoverageInDirection
    angles,       \* angles[]
    i,            \* loop index of the batch loop (0-based, as in the code)
    results,      \* results[]
    rays,         \* the calculateCoverageInDirection calls of the batch
    overBudget,   \* Date.now() - startTime > maxProcessingTime
    stalled,      \* the elevation provider has stopped answering for good
    stepFallback, \* history: some probe was accepted by the catch block
    started,      \* history: number of calculateCoverageInDirection calls
    lateRays,     \* history: bearings whose call returned after the budget
    abandoned,    \* fetches given up on by the 3 s race and still outstanding
    currentApi,   \* elevationService.currentApi
    requestCount, \* elevationService.requestCount
    cache,        \* elevationService.cache, in insertion order
    calls,        \* the getElevationProfile calls in progress or returned
    fn,           \* the RF function applied ("idle": none yet)
    arg,          \* its arguments
    ret,          \* its return value
    ep,           \* the elevation endpoint: its cache and its call in progress
    ui            \* the planner page: transmitters, link lines, map layers

\* The coverage endpoint (api/coverage.js).
covVars == <<variant, terrain, req, pc, status, body, power, rangeArg,
             rangeLimit, angles, i, results, rays, overBudget, stalled,
             stepFallback, started, lateRays, abandoned>>

\* The singleton ElevationService (js/rf/elevation-service.js).
svcVars == <<currentApi, requestCount, cache, calls>>

\* One application of a function of RFUtils, LinkBudgetCalculator or
\* RFCalculator.
rfVars == <<fn, arg, ret>>

\* The elevation endpoint (api/elevation.js).
epVars == <<ep>>

\* The planner page (LoRaMeshPlanner of the main application script).
uiVars == <<ui>>

vars == <<covVars, svcVars, rfVars, epVars, uiVars>>

---------------------------------------------------------------------------
(* Numbers of JavaScript: an integer, or NaN.  Every comparison with NaN   *)
(* is false; Math.max and Math.min return NaN when an argument is NaN.     *)

NaN == 0 - 999999

IsNaN(x) == x = NaN
Lt(a, b) == ~IsNaN(a) /\ ~IsNaN(b) /\ a < b
Le(a, b) == ~IsNaN(a) /\ ~IsNaN(b) /\ a <= b
Gt(a, b) == ~IsNaN(a) /\ ~IsNaN(b) /\ a > b
MathMax(a, b) == IF IsNaN(a) \/ IsNaN(b) THEN NaN ELSE IF a >= b THEN a ELSE b
MathMin(a, b) == IF IsNaN(a) \/ IsNaN(b) THEN NaN ELSE IF a <= b THEN a ELSE b
Abs(x) == IF IsNaN(x) THEN NaN ELSE IF x < 0 THEN 0 - x ELSE x

---------------------------------------------------------------------------
(* Program constants.                                                      *)

StepSize == 5                 \* stepSize = 0.5 km
MinLinkMargin == 1000         \* minLinkMargin = 10 dB
BasicBatchSize == 8           \* batchSize of api/coverage.js
TimeboxedBatchSize == 6       \* batchSize of the time-boxed variant
DefaultResolution == 15       \* resolution ? parseFloat(resolution) : 15
DefaultMaxRange == 300        \* maxRange ? parseFloat(maxRange) : 30 (km)
FullCircle == 360
CircleStep == 30              \* fallback circle: angle += 30
OneWatt == 100                \* power >= 1.0
AntennaGain == 500            \* this.antennaGain = 5 dBi
ReceiverSensitivity == 13700  \* this.receiverSensitivity = -137 dBm (negated)
MaxFresnelLoss == 600         \* fresnelLoss = 6 * (1 - clearance), clearance >= 0
TimeoutFillMargin == 12       \* linkMargin: 12 of a bearing filled after the budget
RayLinkMargin == 10           \* linkMargin: 10 returned by a ray
CircleLinkMargin == 15        \* linkMargin: 15 of a fallback-circle point
MaxAbsLat == 90               \* Math.abs(numLat) > 90
MaxAbsLng == 180              \* Math.abs(numLng) > 180
MinPower == 10                \* numPower < 0.1
MaxPower == 500               \* numPower > 5
MinResolution == 5            \* numResolution < 5
MaxResolution == 90           \* numResolution > 90

BatchSize(v) == IF v = "basic" THEN BasicBatchSize ELSE TimeboxedBatchSize

---------------------------------------------------------------------------
(* RFCalculator, as far as the ray march reads it.                         *)

\* 10 * Math.log10(power * 1000), for the transmit powers of the model.
TxPowerDbm(p) ==
    CASE p = 5 -> 1699 [] p = 10 -> 2000 [] p = 50 -> 2699
      [] p = 100 -> 3000 [] p = 500 -> 3699 [] p = 600 -> 3778

\* freeSpacePathLoss(500 m * n) = 20 log10(4 pi d / lambda), rounded up.
FSPLTable ==
    <<8566, 9168, 9520, 9770, 9964, 10122, 10256, 10372, 10475, 10566,
      10649, 10724, 10794, 10858, 10918, 10974, 11027, 11077, 11124, 11168,
      11210, 11251, 11290, 11326, 11362, 11396, 11429, 11460, 11491, 11520,
      11549, 11576, 11603, 11629, 11654, 11679, 11702, 11726, 11748, 11770,
      11792, 11813, 11833, 11853, 11872, 11892, 11910, 11929, 11946, 11964,
      11981, 11998, 12015, 12031, 12047, 12062, 12078, 12093, 12108, 12122,
      12137, 12151, 12165, 12178>>

freeSpacePathLoss(d) == FSPLTable[d \div StepSize]

\* estimateCoverageRadius(power, 'rolling'), already divided by 1000 and
\* expressed in hectometres: 0.7 * lambda * 10^((linkBudget - 20)/20) / (4 pi).
estimateCoverageRadius(p) ==
    CASE p = 5 -> 2889 [] p = 10 -> 4086 [] p = 50 -> 9136
      [] p = 100 -> 12921 [] p = 500 -> 28892 [] p = 600 -> 31649

(* The elevation profile a response carries, by what the analysis makes of *)
(* it:                                                                     *)
(*   "empty"     no usable profile (not ok, or profile missing): the ray   *)
(*               substitutes the flat two-point profile, clearance is      *)
(*               Infinity and no loss is added;                            *)
(*   "flat"      equal elevations: no obstruction, a Fresnel loss of at    *)
(*               most 6 dB;                                                *)
(*   "clear"     terrain whose losses leave the margin at 10 dB or more;   *)
(*   "blocked"   terrain whose losses bring the margin below 10 dB (or     *)
(*               make it NaN);                                             *)
(*   "malformed" data on which the analysis throws a TypeError.            *)
ProfileKinds == {"empty", "flat", "clear", "blocked", "malformed"}

\* linkBudget.linkMargin of calculateLinkBudget over a flat profile: the
\* lower bound txPowerDbm + totalGain - pathLoss - 6 dB + 137.
FlatLinkMargin(p, d, kind) ==
    TxPowerDbm(p) + 2 * AntennaGain - freeSpacePathLoss(d)
      - (IF kind = "flat" THEN MaxFresnelLoss ELSE 0) + ReceiverSensitivity

\* linkBudget.linkMargin >= minLinkMargin
LinkViable(p, d, kind) ==
    CASE kind = "clear" -> TRUE
      [] kind = "blocked" -> FALSE
      [] OTHER -> FlatLinkMargin(p, d, kind) >= MinLinkMargin

---------------------------------------------------------------------------
(* The request.  A raw parameter is absent, a number (JSON body), a string *)
(* holding a number (query string or body), or a string that is no number. *)

Absent == [k |-> "absent", v |-> 0]
Junk == [k |-> "junk", v |-> 0]
Val(m, x) == [k |-> IF m = "POST" THEN "num" ELSE "str", v |-> x]

\* !x of JavaScript: undefined, 0 and "" are falsy; "0" is truthy.
Truthy(r) == r.k \in {"junk", "str"} \/ (r.k = "num" /\ r.v # 0)
parseFloat(r) == IF r.k \in {"num", "str"} THEN r.v ELSE NaN


Request(m, la, ln, pw, rs, mr) ==
    [method |-> m, lat |-> la, lng |-> ln, power |-> pw,
     resolution |-> rs, maxRange |-> mr]

numLat(r) == parseFloat(r.lat)
numLng(r) == parseFloat(r.lng)
numPower(r) == parseFloat(r.power)
numResolution(r) ==
    IF Truthy(r.resolution) THEN parseFloat(r.resolution) ELSE DefaultResolution
numMaxRange(r) ==
    IF Truthy(r.maxRange) THEN parseFloat(r.maxRange) ELSE DefaultMaxRange

\* The checks of the handler, in order; "ok" when the request passes them all.
Validate(r) ==
    IF ~Truthy(r.lat) \/ ~Truthy(r.lng) \/ ~Truthy(r.power)
    THEN "Missing required parameters: lat, lng, power"
    ELSE IF IsNaN(numLat(r)) \/ IsNaN(numLng(r)) \/ IsNaN(numPower(r))
    THEN "Invalid numeric parameters"
    ELSE IF Gt(Abs(numLat(r)), MaxAbsLat) \/ Gt(Abs(numLng(r)), MaxAbsLng)
    THEN "Invalid coordinate ranges"
    ELSE IF Lt(numPower(r), MinPower) \/ Gt(numPower(r), MaxPower)
    THEN "Power must be between 0.1W and 5W"
    ELSE IF Lt(numResolution(r), MinResolution) \/ Gt(numResolution(r), MaxResolution)
    THEN "Resolution must be between 5 and 90 degrees"
    ELSE "ok"

---------------------------------------------------------------------------
(* generateCoveragePolygon.                                                *)

\* const optimizedResolution = power >= 1.0 ? Math.max(resolution, 12)
\*                                          : Math.max(resolution, 20)
OptimizedResolution(v, p, r) ==
    IF v = "basic" THEN r
    ELSE IF p >= OneWatt THEN MathMax(r, 12) ELSE MathMax(r, 20)

\* const optimizedMaxRange = power >= 1.0 ? Math.min(maxRange, 20)
\*                                        : Math.min(maxRange, 12)
OptimizedMaxRange(v, p, m) ==
    IF v = "basic" THEN m
    ELSE IF p >= OneWatt THEN MathMin(m, 200) ELSE MathMin(m, 120)

\* for (let angle = 0; angle < 360; angle += r) angles.push(angle)
\* (angle += NaN makes the second test false: one angle, 0).
AnglesOf(r) ==
    IF IsNaN(r) THEN <<0>>
    ELSE [n \in 1..((FullCircle - 1) \div r + 1) |-> (n - 1) * r]

\* A result record: coverageDistance, linkMargin and the bearing its point
\* lies on (lat/lng is calculateDestination(lat, lng, bearing, distance)).
Result(bearing, dist, margin) == [b |-> bearing, d |-> dist, m |-> margin]

\* Mutant of TimeoutFill: the fill starts one bearing late (j = i + 1).
TimeoutFillLate(p, ang, from) ==
    [n \in 1..(Len(ang) - from - 1) |->
        Result(ang[from + n + 1], estimateCoverageRadius(p), TimeoutFillMargin)]

\* Budget exceeded: for (let j = i; j < angles.length; j++) one estimated
\* result on angles[j] (from is the 0-based i).
TimeoutFill(p, ang, from) ==
    [n \in 1..(Len(ang) - from) |->
        Result(ang[from + n], estimateCoverageRadius(p), TimeoutFillMargin)]

\* results.forEach: keep the results with coverageDistance > 0, each with
\* angles[index].
RECURSIVE CoveragePoints(_, _, _)
CoveragePoints(res, ang, n) ==
    IF n = 0 THEN <<>>
    ELSE LET rest == CoveragePoints(res, ang, n - 1)
         IN  IF res[n].d > 0
             THEN Append(rest, [distance |-> res[n].d, angle |-> ang[n],
                                linkMargin |-> res[n].m])
             ELSE rest

\* const fallbackRadius = power >= 1.0 ? 10 : 6
FallbackRadius(p) == IF p >= OneWatt THEN 100 ELSE 60

\* for (let angle = 0; angle < 360; angle += 30) coveragePoints.push(...)
FallbackCircle(p) ==
    [n \in 1..((FullCircle - 1) \div CircleStep + 1) |->
        [distance |-> FallbackRadius(p), angle |-> (n - 1) * CircleStep,
         linkMargin |-> CircleLinkMargin]]

MinPolygonPoints == 3

\* Mutant of Polygon: the fallback circle is forgotten.
PolygonNoCircle(res, ang, p) == CoveragePoints(res, ang, Len(res))

\* if (coveragePoints.length < 3) the circle is pushed onto coveragePoints.
Polygon(res, ang, p) ==
    LET pts == CoveragePoints(res, ang, Len(res))
    IN  IF Len(pts) < MinPolygonPoints THEN pts \o FallbackCircle(p) ELSE pts

RECURSIVE SumDistance(_, _)
SumDistance(poly, n) ==
    IF n = 0 THEN 0 ELSE poly[n].distance + SumDistance(poly, n - 1)

MaxDistance(poly) ==
    CHOOSE x \in {poly[n].distance : n \in DOMAIN poly} :
        \A n \in DOMAIN poly : poly[n].distance <= x

\* The object generateCoveragePolygon returns (avgRange rounded down).
CoverageResult(res, ang, p) ==
    LET poly == Polygon(res, ang, p)
    IN  [success |-> TRUE,
         polygon |-> poly,
         maxRange |-> IF Len(poly) > 0 THEN MaxDistance(poly) ELSE 0,
         avgRange |-> IF Len(poly) > 0
                      THEN SumDistance(poly, Len(poly)) \div Len(poly) ELSE 0,
         pointCount |-> Len(poly)]

---------------------------------------------------------------------------
(* calculateCoverageInDirection: one ray.  st is where the call is         *)
(* suspended ("fetch": on the fetch, raced against the 3 s timer in the    *)
(* time-boxed variant; "json": on elevationResponse.json(); "done":        *)
(* returned), d is distance, last is lastGoodDistance, and stop records    *)
(* how the loop ended: "range" (distance > maxRange), "margin" (the break  *)
(* on linkMargin < minLinkMargin) or "estimate" (the break in the catch).  *)
(* bearing is the argument of the call.                                    *)

\* Mutant of EstimatedRange: the two estimates swapped.
EstimatedRangeSwapped(p) == IF p >= OneWatt THEN 80 ELSE 150

\* const estimatedRange = power >= 1.0 ? 15 : 8
EstimatedRange(p) == IF p >= OneWatt THEN 150 ELSE 80

\* The loop test distance <= maxRange, then the fetch of the next probe.
Probe(angle, dist, lastGood, limit) ==
    IF Le(dist, limit)
    THEN [bearing |-> angle, st |-> "fetch", d |-> dist, last |-> lastGood,
          stop |-> "none"]
    ELSE [bearing |-> angle, st |-> "done", d |-> dist, last |-> lastGood,
          stop |-> "range"]

StartRay(angle, limit) == Probe(angle, StepSize, 0, limit)

\* lastGoodDistance = distance; then distance += stepSize and the loop test.
Advance(r, limit) == Probe(r.bearing, r.d + StepSize, r.d, limit)

Break(r, why) == [r EXCEPT !.st = "done", !.stop = why]

\* Mutant of Evaluate: a failing probe is skipped instead of ending the march.
EvaluateNoBreak(r, p, kind, limit) ==
    IF LinkViable(p, r.d, kind) THEN Advance(r, limit)
    ELSE Probe(r.bearing, r.d + StepSize, r.last, limit)

\* if (linkBudget.linkMargin >= minLinkMargin) {...} else break
Evaluate(r, p, kind, limit) ==
    IF LinkViable(p, r.d, kind) THEN Advance(r, limit) ELSE Break(r, "margin")

\* catch (error): if (distance <= estimatedRange) {...} else break
Catch(r, p, limit) ==
    IF r.d <= EstimatedRange(p) THEN Advance(r, limit) ELSE Break(r, "estimate")

\* The profiles the provider can serve.
Profiles(t) == IF t = "flat" THEN {"empty", "flat"} ELSE ProfileKinds

---------------------------------------------------------------------------
(* The requests of the model.                                              *)

MaxRangeSteps == 2   \* deepest march of the 4-bearing requests, in steps
ShortRange == 2      \* a maxRange below one step (0.2 km): no probe at all
MaxRaySteps == 31    \* deepest march of a single ray called on its own
MaxAbandoned == 3    \* abandoned fetches counted (the count saturates here)

LatRaws(m) == {Absent, Junk, Val(m, 0), Val(m, 45), Val(m, 91)}
LngRaws(m) == {Junk, Val(m, 10), Val(m, 0 - 181)}
PowerRaws(m) == {Absent, Junk, Val(m, 5), Val(m, 50), Val(m, 100), Val(m, 600)}
ResolutionRaws(m) ==
    {Absent, Junk, Val(m, 4), Val(m, 10), Val(m, 15), Val(m, 90), Val(m, 91)}

\* Every combination of parameters, with a range too short to probe.
ScreenRequests ==
    UNION {{Request(m, la, ln, pw, rs, Val(m, ShortRange)) :
                la \in LatRaws(m), ln \in LngRaws(m),
                pw \in PowerRaws(m), rs \in ResolutionRaws(m)} :
           m \in {"GET", "POST"}}
      \cup {Request(m, Absent, Absent, Absent, Absent, Absent) :
                m \in {"OPTIONS", "PUT"}}

\* 4 bearings marched up to MaxRangeSteps steps; 9 bearings (two batches in
\* either variant) marched one step.
MarchRequests ==
    {Request("POST", Val("POST", 45), Val("POST", 10), Val("POST", pw),
             Val("POST", 90), Val("POST", StepSize * n)) :
        pw \in {50, 100}, n \in 1..MaxRangeSteps}
      \cup {Request("POST", Val("POST", 45), Val("POST", 10), Val("POST", pw),
                    Val("POST", 40), Val("POST", StepSize + 2)) :
               pw \in {100}}

Requests == ScreenRequests \cup MarchRequests

---------------------------------------------------------------------------
(* Actions.                                                                *)

NoBody == [empty |-> TRUE]

Respond(s, b) == status' = s /\ body' = b /\ pc' = "done"

\* export default async function handler(req, res), up to the first await:
\* a response, or the call of generateCoveragePolygon up to its batch loop.
Handler ==
    /\ pc = "recv"
    /\ IF req.method = "OPTIONS"
       THEN /\ Respond(200, NoBody)
            /\ UNCHANGED <<power, rangeArg, rangeLimit, angles>>
       ELSE IF req.method \notin {"POST", "GET"}
       THEN /\ Respond(405, [error |-> "Method not allowed"])
            /\ UNCHANGED <<power, rangeArg, rangeLimit, angles>>
       ELSE IF Validate(req) # "ok"
       THEN /\ Respond(400, [error |-> Validate(req)])
            /\ UNCHANGED <<power, rangeArg, rangeLimit, angles>>
       ELSE /\ power' = numPower(req)
            /\ rangeArg' = numMaxRange(req)
            /\ rangeLimit' = OptimizedMaxRange(variant, numPower(req), numMaxRange(req))
            /\ angles' = AnglesOf(OptimizedResolution(variant, numPower(req),
                                                      numResolution(req)))
            /\ pc' = "loop"
            /\ UNCHANGED <<status, body>>
    /\ UNCHANGED <<svcVars, rfVars, epVars, uiVars, variant, terrain, req, i, results, rays, overBudget,
                   stalled, stepFallback, started, lateRays, abandoned>>

\* Mutant of BatchLen: every remaining bearing is fanned out at once.
BatchLenAll == Len(angles) - i

\* batch = angles.slice(i, i + batchSize)
BatchLen == IF i + BatchSize(variant) <= Len(angles)
            THEN BatchSize(variant) ELSE Len(angles) - i

\* The head of the batch loop: the budget test of the time-boxed variant,
\* then batch.map(...) over angles.slice(i, i + batchSize), which runs every
\* ray of the batch to its first await.
LoopHead ==
    /\ pc = "loop"
    /\ i < Len(angles)
    /\ IF variant = "timeboxed" /\ overBudget
       THEN /\ results' = results \o TimeoutFill(power, angles, i)
            /\ pc' = "build"
            /\ UNCHANGED <<rays, started>>
       ELSE /\ rays' = [k \in 1..BatchLen |-> StartRay(angles[i + k], rangeLimit)]
            /\ started' = started + BatchLen
            /\ pc' = "awaitBatch"
            /\ UNCHANGED results
    /\ UNCHANGED <<svcVars, rfVars, epVars, uiVars, variant, terrain, req, status, body, power, rangeArg,
                   rangeLimit, angles, i, overBudget, stalled, stepFallback,
                   lateRays, abandoned>>

RayUnchanged == UNCHANGED <<svcVars, rfVars, epVars, uiVars, variant, terrain, req, pc, status, body, power,
                            rangeArg, rangeLimit, angles, i, results,
                            overBudget, stalled, started>>

\* The call k returns (its promise settles) after the budget was exceeded.
LateReturn(k) ==
    lateRays' = IF overBudget /\ rays'[k].st = "done"
                THEN lateRays \cup {rays[k].bearing} ELSE lateRays

\* The fetch resolves: with !ok the empty profile is analysed at once,
\* otherwise the ray awaits the body.
FetchResolves(k) ==
    /\ rays[k].st = "fetch"
    /\ ~stalled
    /\ \E ok \in BOOLEAN :
          rays' = [rays EXCEPT ![k] =
                      IF ok THEN [rays[k] EXCEPT !.st = "json"]
                      ELSE Evaluate(rays[k], power, "empty", rangeLimit)]
    /\ UNCHANGED stepFallback
    /\ LateReturn(k)
    /\ UNCHANGED abandoned
    /\ RayUnchanged

\* The fetch rejects (network error): the catch block.
FetchRejects(k) ==
    /\ rays[k].st = "fetch"
    /\ ~stalled
    /\ rays' = [rays EXCEPT ![k] = Catch(rays[k], power, rangeLimit)]
    /\ stepFallback' = (stepFallback \/ rays'[k].last = rays[k].d)
    /\ LateReturn(k)
    /\ UNCHANGED abandoned
    /\ RayUnchanged

\* The 3 s timer of Promise.race rejects first: the catch block.  The fetch
\* itself is not aborted (the timeout option is not one of fetch) and stays
\* outstanding.
FetchTimeout(k) ==
    /\ variant = "timeboxed"
    /\ rays[k].st = "fetch"
    /\ rays' = [rays EXCEPT ![k] = Catch(rays[k], power, rangeLimit)]
    /\ stepFallback' = (stepFallback \/ rays'[k].last = rays[k].d)
    /\ LateReturn(k)
    /\ abandoned' = IF abandoned < MaxAbandoned THEN abandoned + 1 ELSE abandoned
    /\ RayUnchanged

\* The body arrives and parses: the profile is analysed; the analysis of
\* malformed data throws into the catch block.
JsonResolves(k) ==
    /\ rays[k].st = "json"
    /\ ~stalled
    /\ \E kind \in Profiles(terrain) :
          /\ rays' = [rays EXCEPT ![k] =
                         IF kind = "malformed"
                         THEN Catch(rays[k], power, rangeLimit)
                         ELSE Evaluate(rays[k], power, kind, rangeLimit)]
          /\ stepFallback' = (stepFallback
                               \/ (kind = "malformed" /\ rays'[k].last = rays[k].d))
    /\ LateReturn(k)
    /\ UNCHANGED abandoned
    /\ RayUnchanged

\* elevationResponse.json() rejects (body is no JSON): the catch block.
JsonRejects(k) ==
    /\ rays[k].st = "json"
    /\ ~stalled
    /\ rays' = [rays EXCEPT ![k] = Catch(rays[k], power, rangeLimit)]
    /\ stepFallback' = (stepFallback \/ rays'[k].last = rays[k].d)
    /\ LateReturn(k)
    /\ UNCHANGED abandoned
    /\ RayUnchanged

\* A fetch that lost the race against the 3 s timer completes or fails: its
\* promise has no handler left, nothing else changes.
AbandonedFetchSettles ==
    /\ abandoned > 0
    /\ ~stalled
    /\ abandoned' = abandoned - 1
    /\ UNCHANGED <<svcVars, rfVars, epVars, uiVars, variant, terrain, req, pc, status, body, power,
                   rangeArg, rangeLimit, angles, i, results, rays, overBudget,
                   stalled, stepFallback, started, lateRays>>

\* The provider stops answering: no outstanding or later request completes.
ProviderStalls ==
    /\ pc = "awaitBatch"
    /\ ~stalled
    /\ stalled' = TRUE
    /\ UNCHANGED <<svcVars, rfVars, epVars, uiVars, variant, terrain, req, pc, status, body, power, rangeArg,
                   rangeLimit, angles, i, results, rays, overBudget,
                   stepFallback, started, lateRays, abandoned>>

\* Wall-clock time passes the 8 s budget while the function is suspended.
TimePasses ==
    /\ variant = "timeboxed"
    /\ pc \in {"awaitBatch", "delay"}
    /\ ~overBudget
    /\ overBudget' = TRUE
    /\ UNCHANGED <<svcVars, rfVars, epVars, uiVars, variant, terrain, req, pc, status, body, power, rangeArg,
                   rangeLimit, angles, i, results, rays, stalled,
                   stepFallback, started, lateRays, abandoned>>

\* await Promise.all(batchPromises) resumes: results.push(...batchResults),
\* then the delay before the next batch, or the end of the loop.
\* Promise.all cannot reject, because calculateCoverageInDirection catches
\* every error of a probe: the catch block around the batch (time-boxed
\* variant) is never entered, and has no action here.
JoinBatch ==
    /\ pc = "awaitBatch"
    /\ \A k \in DOMAIN rays : rays[k].st = "done"
    /\ results' = results \o [k \in DOMAIN rays |->
                                 Result(rays[k].bearing, rays[k].last, RayLinkMargin)]
    /\ rays' = <<>>
    /\ pc' = IF i + BatchSize(variant) < Len(angles) THEN "delay" ELSE "build"
    /\ UNCHANGED <<svcVars, rfVars, epVars, uiVars, variant, terrain, req, status, body, power, rangeArg,
                   rangeLimit, angles, i, overBudget, stalled, stepFallback,
                   started, lateRays, abandoned>>

\* The setTimeout between two batches elapses; i += batchSize.
DelayElapsed ==
    /\ pc = "delay"
    /\ i' = i + BatchSize(variant)
    /\ pc' = "loop"
    /\ UNCHANGED <<svcVars, rfVars, epVars, uiVars, variant, terrain, req, status, body, power, rangeArg,
                   rangeLimit, angles, results, rays, overBudget, stalled,
                   stepFallback, started, lateRays, abandoned>>

\* After the loop: the polygon is built and returned, and the handler
\* answers res.status(200).json(result).
BuildPolygon ==
    /\ pc = "build"
    /\ Respond(200, CoverageResult(results, angles, power))
    /\ UNCHANGED <<svcVars, rfVars, epVars, uiVars, variant, terrain, req, power, rangeArg, rangeLimit,
                   angles, i, results, rays, overBudget, stalled,
                   stepFallback, started, lateRays, abandoned>>

\* The other components at rest: the service as constructed, no RF function
\* applied.
NoArg == [none |-> TRUE]

SvcIdle ==
    /\ currentApi = "openMeteo"
    /\ requestCount = 0
    /\ cache = <<>>
    /\ calls = <<>>

RfIdle ==
    /\ fn = "idle"
    /\ arg = NoArg
    /\ ret = NoArg

\* const cache = new Map(), and no call of getElevationProfile yet.
EpIdle ==
    ep = [pc |-> "idle", samples |-> 0, fetches |-> <<>>, cache |-> <<>>,
          out |-> <<>>]

\* The page after its constructor, with nothing in localStorage: no
\* transmitter, no link line, no link calculation started.
UiIdle ==
    ui = [transmitters |-> <<>>, currentPower |-> 15, linkLines |-> {},
          onMap |-> {}, pending |-> <<>>, now |-> 0, polylines |-> 0]

Init ==
    /\ SvcIdle
    /\ RfIdle
    /\ EpIdle
    /\ UiIdle
    /\ variant \in {"basic", "timeboxed"}
    /\ terrain \in {"flat", "any"}
    /\ req \in Requests
    /\ pc = "recv"
    /\ status = 0
    /\ body = NoBody
    /\ power = 0
    /\ rangeArg = 0
    /\ rangeLimit = 0
    /\ angles = <<>>
    /\ i = 0
    /\ results = <<>>
    /\ rays = <<>>
    /\ overBudget = FALSE
    /\ stalled = FALSE
    /\ stepFallback = FALSE
    /\ started = 0
    /\ lateRays = {}
    /\ abandoned = 0

Next ==
    \/ Handler
    \/ LoopHead
    \/ \E k \in DOMAIN rays : FetchResolves(k)
    \/ \E k \in DOMAIN rays : FetchRejects(k)
    \/ \E k \in DOMAIN rays : FetchTimeout(k)
    \/ \E k \in DOMAIN rays : JsonResolves(k)
    \/ \E k \in DOMAIN rays : JsonRejects(k)
    \/ AbandonedFetchSettles
    \/ ProviderStalls
    \/ TimePasses
    \/ JoinBatch
    \/ DelayElapsed
    \/ BuildPolygon

Spec == Init /\ [][Next]_vars

---------------------------------------------------------------------------
(* calculateCoverageInDirection called on its own: a Promise.all of two    *)
(* calls with the same power and maxRange, marched as deep as MaxRaySteps. *)

RayRanges ==
    {0, StepSize, StepSize + 2, 2 * StepSize, EstimatedRange(50),
     EstimatedRange(50) + StepSize, EstimatedRange(100),
     StepSize * MaxRaySteps, NaN}

RayInit ==
    /\ SvcIdle
    /\ RfIdle
    /\ EpIdle
    /\ UiIdle
    /\ variant \in {"basic", "timeboxed"}
    /\ terrain = "any"
    /\ req = Request("GET", Absent, Absent, Absent, Absent, Absent)
    /\ pc = "ray"
    /\ status = 0
    /\ body = NoBody
    /\ power \in {50, 100}
    /\ rangeLimit \in RayRanges
    /\ rangeArg = rangeLimit
    /\ angles = <<0, 90>>
    /\ i = 0
    /\ results = <<>>
    /\ rays = <<StartRay(angles[1], rangeLimit), StartRay(angles[2], rangeLimit)>>
    /\ overBudget = FALSE
    /\ stalled = FALSE
    /\ stepFallback = FALSE
    /\ started = 2
    /\ lateRays = {}
    /\ abandoned = 0

RayNext ==
    \/ \E k \in DOMAIN rays : FetchResolves(k)
    \/ \E k \in DOMAIN rays : FetchRejects(k)
    \/ \E k \in DOMAIN rays : FetchTimeout(k)
    \/ \E k \in DOMAIN rays : JsonResolves(k)
    \/ \E k \in DOMAIN rays : JsonRejects(k)
    \/ AbandonedFetchSettles

RaySpec == RayInit /\ [][RayNext]_vars

\* The coverage endpoint at rest, for the specifications of the other
\* components.
CovIdle ==
    /\ variant = "basic"
    /\ terrain = "flat"
    /\ req = Request("GET", Absent, Absent, Absent, Absent, Absent)
    /\ pc = "recv"
    /\ status = 0
    /\ body = NoBody
    /\ power = 0
    /\ rangeArg = 0
    /\ rangeLimit = 0
    /\ angles = <<>>
    /\ i = 0
    /\ results = <<>>
    /\ rays = <<>>
    /\ overBudget = FALSE
    /\ stalled = FALSE
    /\ stepFallback = FALSE
    /\ started = 0
    /\ lateRays = {}
    /\ abandoned = 0

---------------------------------------------------------------------------
(* ElevationService (js/rf/elevation-service.js): one singleton, shared by *)
(* the link calculations that Promise.all runs side by side.  A sample of  *)
(* a path is named by its index along the path, which stands for the       *)
(* coordinates generatePathPoints gives it.                                *)

PointsPerRequest == 100
OpenMeteoRateLimit == 10000
OpenTopoRateLimit == 100
MaxCacheSize == 1000
EstimatedElevation == 300

\* Bounds: calls side by side, the two sample counts (one batch, two
\* batches), the length of the path in hectometres and the elevation a
\* provider reports.
MaxCalls == 2
FewSamples == 2
ManySamples == 101
TotalDistance == 120
ProviderElevation == 250

SampleCounts == {FewSamples, ManySamples}
Paths == {"a", "b"}

RateLimit(api) == IF api = "openMeteo" THEN OpenMeteoRateLimit ELSE OpenTopoRateLimit

\* batchPoints(points, batchSize): the number of batches, and the points
\* of batch b.
NumBatches(n) == (n + PointsPerRequest - 1) \div PointsPerRequest
BatchBase(b) == (b - 1) * PointsPerRequest
BatchLength(n, b) ==
    IF b * PointsPerRequest <= n THEN PointsPerRequest ELSE n - BatchBase(b)

\* getEstimatedElevation(generatePathPoints(start, end, samples))
getEstimatedElevation(n) ==
    [j \in 1..n |-> [point |-> j, elevation |-> EstimatedElevation]]

\* formatElevationProfile(elevationData, startPoint, endPoint)
formatElevationProfile(data) ==
    [j \in 1..Len(data) |->
        [distance |-> IF j = 1 THEN 0
                      ELSE IF j = Len(data) THEN TotalDistance
                      ELSE (TotalDistance * (j - 1)) \div (Len(data) - 1),
         point |-> data[j].point,
         elevation |-> data[j].elevation]]

\* The service fields an operator reads and writes.
Service == [currentApi |-> currentApi, requestCount |-> requestCount,
            cache |-> cache]

\* The frame of a getElevationProfile call at its entry.
NewCall(path, n) ==
    [st |-> "entry", path |-> path, samples |-> n, api |-> "none",
     attempts |-> <<>>, batch |-> 0, all |-> <<>>, kind |-> "none",
     out |-> <<>>]

Returned(c, kind, profile) ==
    [c EXCEPT !.st = "done", !.kind = kind, !.out = profile]

\* The index of the cache entry of a key, 0 if there is none.
CacheIndex(entries, key) ==
    IF \E k \in DOMAIN entries : entries[k].key = key
    THEN CHOOSE k \in DOMAIN entries : entries[k].key = key
    ELSE 0

Remove(entries, k) ==
    [j \in 1..(Len(entries) - 1) |-> IF j < k THEN entries[j] ELSE entries[j + 1]]

\* Mutant of setCached: a full cache loses its newest entry.
setCachedEvictsNewest(entries, key, data) ==
    LET kept == IF Len(entries) >= MaxCacheSize
                THEN SubSeq(entries, 1, Len(entries) - 1) ELSE entries
        k == CacheIndex(kept, key)
    IN  IF k # 0 THEN [kept EXCEPT ![k] = [key |-> key, data |-> data]]
        ELSE Append(kept, [key |-> key, data |-> data])

\* setCached(key, data): a full cache loses its first entry; Map.set keeps
\* the place of a key it already holds.
setCached(entries, key, data) ==
    LET kept == IF Len(entries) >= MaxCacheSize THEN Tail(entries) ELSE entries
        k == CacheIndex(kept, key)
    IN  IF k # 0 THEN [kept EXCEPT ![k] = [key |-> key, data |-> data]]
        ELSE Append(kept, [key |-> key, data |-> data])

\* getElevationProfile from its entry, and its catch block, up to the
\* first await or the return.  fresh: a cached entry has not expired;
\* reset: a day has passed since lastRequestReset.
RECURSIVE OnServiceError(_, _, _, _)
getElevationProfile(s, c, fresh, reset) ==
    LET key == <<c.path, c.samples>>
        k == CacheIndex(s.cache, key)
    IN  IF k # 0 /\ fresh
        THEN [s |-> s, c |-> Returned(c, "cached", s.cache[k].data)]
        ELSE LET s1 == [s EXCEPT !.cache = IF k # 0 THEN Remove(@, k) ELSE @,
                                 !.requestCount = IF reset THEN 0 ELSE @]
                 c1 == [c EXCEPT !.api = s1.currentApi,
                                 !.attempts = Append(@, s1.currentApi),
                                 !.batch = 1,
                                 !.all = <<>>]
             IN  IF s1.requestCount < RateLimit(s1.currentApi)
                 THEN [s |-> s1, c |-> [c1 EXCEPT !.st = "fetch"]]
                 ELSE OnServiceError(s1, c1, fresh, reset)

\* Mutant of OnServiceError: the default provider is selected again once
\* a call has fallen back to the estimate.
OnServiceErrorResets(s, c, fresh, reset) ==
    IF s.currentApi = "openMeteo"
    THEN getElevationProfile([s EXCEPT !.currentApi = "openTopo"], c, fresh, reset)
    ELSE [s |-> [s EXCEPT !.currentApi = "openMeteo"],
          c |-> Returned(c, "estimated",
                         formatElevationProfile(getEstimatedElevation(c.samples)))]

\* catch (error) of getElevationProfile
OnServiceError(s, c, fresh, reset) ==
    IF s.currentApi = "openMeteo"
    THEN getElevationProfile([s EXCEPT !.currentApi = "openTopo"], c, fresh, reset)
    ELSE [s |-> s,
          c |-> Returned(c, "estimated",
                         formatElevationProfile(getEstimatedElevation(c.samples)))]

\* The results a response of `count` elevations adds to allResults:
\* getOpenMeteoElevation walks the batch (a missing elevation reads as 0),
\* getOpenTopoElevation walks the results of the response.
BatchResults(c, count) ==
    LET len == BatchLength(c.samples, c.batch)
        pushed == IF c.api = "openMeteo" THEN len ELSE count
    IN  [j \in 1..pushed |->
            [point |-> BatchBase(c.batch) + j,
             elevation |-> IF j <= count THEN ProviderElevation ELSE 0]]

\* The body of a response has arrived: the rest of the loop body, then the
\* next request, or the profile is formatted, cached and returned.
\* count < 0 stands for a body without the array; the OpenTopoData loop
\* throws on a result that has no point in the batch.
OnElevationData(s, c, count, fresh, reset) ==
    IF \/ count < 0
       \/ c.api = "openTopo" /\ count > BatchLength(c.samples, c.batch)
    THEN OnServiceError(s, c, fresh, reset)
    ELSE LET all == c.all \o BatchResults(c, count)
             s1 == [s EXCEPT !.requestCount = @ + 1]
         IN  IF c.batch < NumBatches(c.samples)
             THEN [s |-> s1,
                   c |-> [c EXCEPT !.all = all, !.batch = @ + 1, !.st = "fetch"]]
             ELSE LET profile == formatElevationProfile(all)
                  IN  [s |-> [s1 EXCEPT !.cache =
                                 setCached(@, <<c.path, c.samples>>, profile)],
                       c |-> Returned([c EXCEPT !.all = all], "provider", profile)]

\* The service and call k after a step of call k.
ServiceStep(k, r) ==
    /\ currentApi' = r.s.currentApi
    /\ requestCount' = r.s.requestCount
    /\ cache' = r.s.cache
    /\ calls' = [calls EXCEPT ![k] = r.c]
    /\ UNCHANGED <<covVars, rfVars, epVars, uiVars>>

\* A link calculation calls elevationService.getElevationProfile.
CallGetElevationProfile ==
    /\ Len(calls) < MaxCalls
    /\ \E path \in Paths, n \in SampleCounts, fresh, reset \in BOOLEAN :
          LET r == getElevationProfile(Service, NewCall(path, n), fresh, reset)
          IN  /\ currentApi' = r.s.currentApi
              /\ requestCount' = r.s.requestCount
              /\ cache' = r.s.cache
              /\ calls' = Append(calls, r.c)
    /\ UNCHANGED <<covVars, rfVars, epVars, uiVars>>

\* await fetch(url) resolves: with response.ok the call awaits the body,
\* otherwise it throws.
ElevationFetchResolves(k) ==
    /\ calls[k].st = "fetch"
    /\ \E ok, fresh, reset \in BOOLEAN :
          ServiceStep(k, IF ok THEN [s |-> Service,
                                     c |-> [calls[k] EXCEPT !.st = "json"]]
                         ELSE OnServiceError(Service, calls[k], fresh, reset))

\* await fetch(url) rejects.
ElevationFetchRejects(k) ==
    /\ calls[k].st = "fetch"
    /\ \E fresh, reset \in BOOLEAN :
          ServiceStep(k, OnServiceError(Service, calls[k], fresh, reset))

\* await response.json() resolves, with a body of some number of results.
ElevationJsonResolves(k) ==
    /\ calls[k].st = "json"
    /\ \E d \in -1..1, missing, fresh, reset \in BOOLEAN :
          LET len == BatchLength(calls[k].samples, calls[k].batch)
              count == IF missing THEN -1 ELSE len + d
          IN  ServiceStep(k, OnElevationData(Service, calls[k], count, fresh, reset))

\* await response.json() rejects.
ElevationJsonRejects(k) ==
    /\ calls[k].st = "json"
    /\ \E fresh, reset \in BOOLEAN :
          ServiceStep(k, OnServiceError(Service, calls[k], fresh, reset))

\* The service after earlier use: either provider, a request count at or
\* next to a rate limit.
\* clearCache()
ClearCache ==
    /\ cache # <<>>
    /\ cache' = <<>>
    /\ UNCHANGED <<currentApi, requestCount, calls, covVars, rfVars, epVars, uiVars>>

SvcInit ==
    /\ CovIdle
    /\ RfIdle
    /\ EpIdle
    /\ UiIdle
    /\ currentApi \in {"openMeteo", "openTopo"}
    /\ requestCount \in {0, OpenTopoRateLimit - 1, OpenTopoRateLimit,
                         OpenMeteoRateLimit}
    /\ cache = <<>>
    /\ calls = <<>>

SvcNext ==
    \/ CallGetElevationProfile
    \/ \E k \in DOMAIN calls : ElevationFetchResolves(k)
    \/ \E k \in DOMAIN calls : ElevationFetchRejects(k)
    \/ \E k \in DOMAIN calls : ElevationJsonResolves(k)
    \/ \E k \in DOMAIN calls : ElevationJsonRejects(k)
    \/ ClearCache

SvcSpec == SvcInit /\ [][SvcNext]_vars

\* The service after n profiles of other paths were cached, the oldest
\* first: one insertion short of a full cache.
Prefilled(n) == [j \in 1..n |-> [key |-> <<"old", j>>, data |-> <<>>]]

CacheInit ==
    /\ CovIdle
    /\ RfIdle
    /\ EpIdle
    /\ UiIdle
    /\ currentApi = "openMeteo"
    /\ requestCount = 0
    /\ cache = Prefilled(MaxCacheSize - 1)
    /\ calls = <<>>

CacheSpec == CacheInit /\ [][SvcNext]_vars

---------------------------------------------------------------------------
(* RFUtils and LinkBudgetCalculator (js/rf/rf-utils.js), and the terrain   *)
(* analysis of RFCalculator.  Distances are in hectometres, heights and    *)
(* elevations in centimetres, losses and margins in hundredths of a dB.    *)
(* A number is an integer, NaN, Infinity or -Infinity.                     *)

Infinity == 888888
NegInfinity == 0 - Infinity

Neg(a) == IF IsNaN(a) THEN NaN ELSE 0 - a

Plus(a, b) ==
    IF IsNaN(a) \/ IsNaN(b) THEN NaN
    ELSE IF a = Infinity THEN (IF b = NegInfinity THEN NaN ELSE Infinity)
    ELSE IF a = NegInfinity THEN (IF b = Infinity THEN NaN ELSE NegInfinity)
    ELSE IF b \in {Infinity, NegInfinity} THEN b
    ELSE a + b

Minus(a, b) == Plus(a, Neg(b))

\* Math.floor(Math.sqrt(n)) for n >= 0, by bisection.
RECURSIVE SqrtBetween(_, _, _)
SqrtBetween(n, lo, hi) ==
    IF hi - lo <= 1 THEN lo
    ELSE LET mid == (lo + hi) \div 2
         IN  IF mid * mid <= n THEN SqrtBetween(n, mid, hi)
             ELSE SqrtBetween(n, lo, mid)

MathSqrt(n) == IF n < 0 THEN NaN ELSE SqrtBetween(n, 0, 46340)

\* 20 * log10(distanceKm) + 20 * log10(915) + 32.44 at the distances of the
\* model.
FSPLByDistance ==
    1 :> 7167 @@ 5 :> 8565 @@ 10 :> 9167 @@ 16 :> 9575 @@ 20 :> 9769
      @@ 30 :> 10121 @@ 45 :> 10473 @@ 50 :> 10565 @@ 80 :> 10973
      @@ 100 :> 11167 @@ 120 :> 11325 @@ 150 :> 11519 @@ 200 :> 11769
      @@ 1000 :> 13167 @@ 3000 :> 14121

\* RFUtils.calculateFSPL(distance): Math.log10 is -Infinity at 0 and NaN
\* below 0.
calculateFSPL(d) ==
    IF d < 0 THEN NaN
    ELSE IF d = 0 THEN NegInfinity
    ELSE FSPLByDistance[d]

\* RFUtils.getRequiredFresnelClearance(distance), in tenths.
getRequiredFresnelClearance(total) ==
    IF total < 50 THEN 6 ELSE IF total < 150 THEN 7 ELSE 8

\* position / totalDistance is NaN for 0 / 0 and infinite for x / 0: what
\* is computed from it is NaN or infinite, never an ordinary height.
\* (rx - tx) * (d1 / total), the rise of the line of sight at d1.
LosRise(tx, rx, d1, total) ==
    IF total = 0 THEN NaN ELSE ((rx - tx) * d1) \div total

\* calculateEarthCurvature(total, d1 / total) = d1 * d2 / (2 * earthRadius)
calculateEarthCurvature(total, d1) ==
    IF total = 0 THEN NaN ELSE (d1 * (total - d1) * 500) \div 6371

\* calculateFresnelZoneRadius(d1, d2) = sqrt(wavelength * d1 * d2 / (d1 + d2))
calculateFresnelZoneRadius(d1, d2) ==
    IF d1 + d2 = 0 THEN NaN
    ELSE MathSqrt(3276 * ((100 * d1 * d2) \div (d1 + d2)))

\* An elevation sample of a profile.
Sample(d, e) == [distance |-> d, elevation |-> e]

\* Mutant: the clearance with its sign turned.
ClearanceTurned(terrainHeight, requiredHeight) == Minus(requiredHeight, terrainHeight)

\* const clearance = terrainHeight - requiredHeight
Clearance(terrainHeight, requiredHeight) == Minus(terrainHeight, requiredHeight)

\* The loop body of analyzeFresnelClearance at sample p.
ClearanceAt(p, txElevation, rxElevation, total) ==
    LET d1 == p.distance
        d2 == total - p.distance
        losHeight == Plus(txElevation, LosRise(txElevation, rxElevation, d1, total))
        adjustedLosHeight == Plus(losHeight, calculateEarthCurvature(total, d1))
        fresnelRadius == calculateFresnelZoneRadius(d1, d2)
        margin == IF IsNaN(fresnelRadius) THEN NaN
                  ELSE (fresnelRadius * getRequiredFresnelClearance(total)) \div 10
        requiredHeight == Plus(adjustedLosHeight, margin)
    IN  [clearance |-> Clearance(p.elevation, requiredHeight),
         requiredHeight |-> requiredHeight,
         fresnelRadius |-> fresnelRadius]

\* The loop of analyzeFresnelClearance over the samples 2..n-1.
RECURSIVE FresnelLoop(_, _, _, _, _, _)
FresnelLoop(profile, j, txElevation, rxElevation, total, results0) ==
    IF j > Len(profile) - 1 THEN results0
    ELSE LET c == ClearanceAt(profile[j], txElevation, rxElevation, total)
             obstructed == Gt(c.clearance, 0)
         IN  FresnelLoop(profile, j + 1, txElevation, rxElevation, total,
                 [results0 EXCEPT
                    !.hasAdequateClearance = IF obstructed THEN FALSE ELSE @,
                    !.obstructions =
                        IF obstructed
                        THEN Append(@, [distance |-> profile[j].distance,
                                        elevation |-> profile[j].elevation,
                                        requiredHeight |-> c.requiredHeight,
                                        obstruction |-> c.clearance,
                                        fresnelRadius |-> c.fresnelRadius])
                        ELSE @,
                    !.minClearance = MathMin(@, IF IsNaN(c.clearance) THEN NaN
                                                ELSE Abs(c.clearance))])

\* RFUtils.analyzeFresnelClearance(pathProfile, txHeight, rxHeight,
\* totalDistance)
analyzeFresnelClearance(profile, txHeight, rxHeight, total) ==
    LET initial == [hasAdequateClearance |-> TRUE,
                    minClearance |-> Infinity,
                    obstructions |-> <<>>,
                    requiredClearancePercent |-> getRequiredFresnelClearance(total),
                    error |-> "none"]
    IN  IF Len(profile) < 2
        THEN [initial EXCEPT !.hasAdequateClearance = FALSE,
                             !.error = "Invalid path profile"]
        ELSE FresnelLoop(profile, 2, profile[1].elevation + txHeight,
                         profile[Len(profile)].elevation + rxHeight, total,
                         initial)

\* RFCalculator.analyzeTerrainProfile(elevationProfile, totalDistance,
\* txHeight, rxHeight): the loop body at sample p, ratios in hundredths.
TerrainAt(p, startElevation, endElevation, total) ==
    LET losHeight == Plus(startElevation,
                          LosRise(startElevation, endElevation, p.distance, total))
        adjustedLosHeight == Minus(losHeight, calculateEarthCurvature(total, p.distance))
        fresnelR == calculateFresnelZoneRadius(p.distance, total - p.distance)
        requiredHeight == Plus(adjustedLosHeight,
                               IF IsNaN(fresnelR) THEN NaN ELSE (6 * fresnelR) \div 10)
        clearanceHeight == Minus(adjustedLosHeight, p.elevation)
        over == Minus(p.elevation, requiredHeight)
        Ratio(x) == IF IsNaN(x) \/ IsNaN(fresnelR) THEN NaN
                    ELSE IF fresnelR = 0
                    THEN (IF x = 0 THEN NaN ELSE IF x > 0 THEN Infinity ELSE NegInfinity)
                    ELSE (100 * x) \div fresnelR
    IN  [clearanceRatio |-> Ratio(clearanceHeight),
         obstructed |-> Gt(over, 0),
         obstruction |-> Ratio(over)]

RECURSIVE TerrainLoop(_, _, _, _, _, _)
TerrainLoop(profile, j, startElevation, endElevation, total, acc) ==
    IF j > Len(profile) - 1 THEN acc
    ELSE LET t == TerrainAt(profile[j], startElevation, endElevation, total)
         IN  TerrainLoop(profile, j + 1, startElevation, endElevation, total,
                 [minClearanceRatio |-> MathMin(acc.minClearanceRatio, t.clearanceRatio),
                  maxObstruction |-> IF t.obstructed
                                     THEN MathMax(acc.maxObstruction, t.obstruction)
                                     ELSE acc.maxObstruction])

analyzeTerrainProfile(profile, total, txHeight, rxHeight) ==
    IF Len(profile) < 2
    THEN [clearance |-> 100, obstruction |-> 0, minClearance |-> Infinity]
    ELSE LET acc == TerrainLoop(profile, 2, profile[1].elevation + txHeight,
                                profile[Len(profile)].elevation + rxHeight, total,
                                [minClearanceRatio |-> Infinity, maxObstruction |-> 0])
         IN  [clearance |-> MathMax(0, acc.minClearanceRatio),
              obstruction |-> acc.maxObstruction,
              minClearance |-> acc.minClearanceRatio]

\* RFCalculator.freeSpacePathLoss(distance) at and below 0 (above 0:
\* freeSpacePathLoss, by the table of the ray march).
freeSpacePathLossAt(d) ==
    IF d < 0 THEN NaN ELSE IF d = 0 THEN NegInfinity ELSE freeSpacePathLoss(d)

\* The Fresnel parameter v = h * sqrt(2 (d1 + d2) / (wavelength d1 d2)),
\* which is sqrt(2) * h / calculateFresnelZoneRadius(d1, d2), in hundredths.
FresnelParameter(h, d1, d2) ==
    LET r == calculateFresnelZoneRadius(d1, d2)
    IN  IF IsNaN(h) \/ IsNaN(r) THEN NaN
        ELSE IF r = 0
        THEN (IF h = 0 THEN NaN ELSE IF h > 0 THEN Infinity ELSE NegInfinity)
        ELSE (14142 * h) \div (100 * r)

\* max(0, 20 * log10(0.5 - 0.62 v)) for v = 0, -0.1, ..., -2.4
PartialObstructionLoss ==
    <<0, 0, 0, 0, 0, 0, 0, 0, 0, 49, 98, 145, 190, 232, 272, 311, 348, 383,
      417, 450, 481, 512, 541, 569, 597>>

\* v <= -2.4; v <= 2.4; the radicand 0.1184 - (0.38 - 0.1 v)^2 is negative
\* above v = 7.24.
NoLossBelow == 0 - 240
ObstructionAbove == 240
RadicandNegativeAbove == 724

\* RFUtils.calculateKnifeEdgeLoss(h, d1, d2).  20 * log10(0.5 * exp(-0.95 v))
\* is negative for every v > 0, and so is 20 * log10(0.4 - sqrt(radicand))
\* wherever the radicand is not negative: Math.max(0, .) makes them 0.
calculateKnifeEdgeLoss(h, d1, d2) ==
    LET v == FresnelParameter(h, d1, d2)
    IN  IF Le(v, NoLossBelow) THEN 0
        ELSE IF Le(v, 0) THEN PartialObstructionLoss[((0 - v) \div 10) + 1]
        ELSE IF Le(v, ObstructionAbove) THEN 0
        ELSE IF Le(v, RadicandNegativeAbove) THEN 0
        ELSE NaN

\* LinkBudgetCalculator.analyzeTerrainPath: the fields calculatePathLoss
\* and assessLinkQuality read.
analyzeTerrainPath(profile, txHeight, rxHeight, distance) ==
    LET fresnelAnalysis == analyzeFresnelClearance(profile, txHeight, rxHeight, distance)
    IN  [hasObstructions |-> ~fresnelAnalysis.hasAdequateClearance,
         obstructions |-> fresnelAnalysis.obstructions,
         minClearance |-> fresnelAnalysis.minClearance]

\* Mutant of WorstObstruction: the first obstruction of the list is taken.
FirstObstruction(obstructions, n) == obstructions[1]

\* obstructions.reduce((worst, current) =>
\*     current.obstruction > worst.obstruction ? current : worst)
RECURSIVE WorstObstruction(_, _)
WorstObstruction(obstructions, n) ==
    IF n = 1 THEN obstructions[1]
    ELSE LET worst == WorstObstruction(obstructions, n - 1)
         IN  IF Gt(obstructions[n].obstruction, worst.obstruction)
             THEN obstructions[n] ELSE worst

Thrown == [thrown |-> TRUE]

\* LinkBudgetCalculator.calculatePathLoss(distance, terrainAnalysis); reduce
\* without an initial value throws a TypeError on an empty list.
calculatePathLoss(distance, terrainAnalysis) ==
    IF terrainAnalysis.hasObstructions /\ terrainAnalysis.obstructions = <<>>
    THEN Thrown
    ELSE LET fspl == calculateFSPL(distance)
             n == Len(terrainAnalysis.obstructions)
             worst == WorstObstruction(terrainAnalysis.obstructions, n)
             diffractionLoss ==
                 IF terrainAnalysis.hasObstructions
                 THEN calculateKnifeEdgeLoss(worst.obstruction, worst.distance,
                                             distance - worst.distance)
                 ELSE 0
             terrainLoss ==
                 IF terrainAnalysis.hasObstructions /\ n > 1
                 THEN MathMin(1000, n * 200) ELSE 0
             foliageLoss == IF distance < 10 THEN 0
                            ELSE IF distance < 50 THEN 300 ELSE 600
         IN  [thrown |-> FALSE,
              freeSpace |-> fspl,
              diffraction |-> diffractionLoss,
              terrain |-> terrainLoss,
              foliage |-> foliageLoss,
              total |-> Plus(Plus(Plus(fspl, diffractionLoss), terrainLoss),
                             foliageLoss)]

\* LinkBudgetCalculator.calculateBasicPathLoss(distance)
calculateBasicPathLoss(distance) ==
    LET fspl == calculateFSPL(distance)
        environmentalMargin == IF distance > 100 THEN 1000 ELSE 500
    IN  [thrown |-> FALSE, freeSpace |-> fspl, diffraction |-> 0, terrain |-> 0,
         foliage |-> environmentalMargin, total |-> Plus(fspl, environmentalMargin)]

\* RFUtils.wattsToDbm(watts)
wattsToDbm(p) == IF p = 15 THEN 2176 ELSE TxPowerDbm(p)

\* RFUtils.getOptimalSpreadingFactor(distance), environment 'suburban':
\* effectiveDistance = distance / 0.8
getOptimalSpreadingFactor(distance) ==
    LET effective == distance * 5
    IN  IF effective <= 4 * 20 THEN "SF7"
        ELSE IF effective <= 4 * 50 THEN "SF8"
        ELSE IF effective <= 4 * 100 THEN "SF9"
        ELSE IF effective <= 4 * 150 THEN "SF10"
        ELSE IF effective <= 4 * 250 THEN "SF11"
        ELSE "SF12"

\* rfUtils.loraParams.sensitivity
Sensitivity(sf) ==
    CASE sf = "SF7" -> 0 - 12300 [] sf = "SF8" -> 0 - 12600
      [] sf = "SF9" -> 0 - 12900 [] sf = "SF10" -> 0 - 13200
      [] sf = "SF11" -> 0 - 13500 [] sf = "SF12" -> 0 - 13700

\* defaultParams of LinkBudgetCalculator
TxAntennaGain == 300
RxAntennaGain == 300
TxCableLoss == 150
RxCableLoss == 150
ConnectorLoss == 50
FadeMargin == 1500
TxAntennaHeight == 1000

\* LinkBudgetCalculator.calculateReliability(linkMargin), in hundredths of
\* a percent.
calculateReliability(linkMargin) ==
    IF Lt(linkMargin, 0 - 1000) THEN 0
    ELSE IF Lt(linkMargin, 0) THEN 5000 + (linkMargin + 1000) * 5
    ELSE IF Lt(linkMargin, 2000) THEN 9000 + linkMargin \div 2
    ELSE 9990

\* LinkBudgetCalculator.calculateLinkParameters(txPowerWatts, pathLoss,
\* params, distance)
calculateLinkParameters(txPowerWatts, pathLoss, distance) ==
    LET txPowerDbm == wattsToDbm(txPowerWatts)
        eirp == txPowerDbm + TxAntennaGain - TxCableLoss - ConnectorLoss
        rxSignalStrength ==
            Plus(Minus(eirp, pathLoss.total),
                 RxAntennaGain - RxCableLoss - ConnectorLoss)
        optimalSF == getOptimalSpreadingFactor(distance)
        rxSensitivity == Sensitivity(optimalSF)
        linkMargin == Minus(Minus(rxSignalStrength, rxSensitivity), FadeMargin)
    IN  [distance |-> distance,
         rxSignalStrength |-> rxSignalStrength,
         rxSensitivity |-> rxSensitivity,
         spreadingFactor |-> optimalSF,
         linkMargin |-> linkMargin,
         fadeMargin |-> FadeMargin,
         isViable |-> Gt(linkMargin, 0),
         reliability |-> calculateReliability(linkMargin)]

\* LinkBudgetCalculator.optimizeSpreadingFactor(linkBudget, params)
optimizeSpreadingFactor(linkBudget) ==
    IF Lt(linkBudget.linkMargin, 0 - 1000) THEN "SF12"
    ELSE IF Lt(linkBudget.linkMargin, 0 - 500) THEN "SF11"
    ELSE IF Lt(linkBudget.linkMargin, 0) THEN "SF10"
    ELSE IF Gt(linkBudget.linkMargin, 2000)
    THEN (IF linkBudget.distance < 50 THEN "SF7" ELSE "SF8")
    ELSE getOptimalSpreadingFactor(linkBudget.distance)

\* LinkBudgetCalculator.assessLinkQuality(linkBudget, terrainAnalysis)
assessLinkQuality(margin, hasObstructions) ==
    IF Lt(margin, 0 - 500) THEN "poor"
    ELSE IF Lt(margin, 500) \/ hasObstructions THEN "marginal"
    ELSE IF Lt(margin, 1500) THEN "good"
    ELSE "excellent"

\* LinkBudgetCalculator.calculateLinkBudget(txPoint, rxPoint, options), from
\* the arrival of the elevation profile: the result, or the fallback result
\* of the catch block.
calculateLinkBudget(txPower, distance, profile, txHeight, rxHeight) ==
    LET terrainAnalysis == analyzeTerrainPath(profile, txHeight, rxHeight, distance)
        pathLoss == calculatePathLoss(distance, terrainAnalysis)
        linkBudget == calculateLinkParameters(txPower, pathLoss, distance)
        fallbackPathLoss == calculateBasicPathLoss(distance)
        fallbackLinkBudget == calculateLinkParameters(txPower, fallbackPathLoss, distance)
    IN  IF pathLoss.thrown
        THEN [fallback |-> TRUE,
              distance |-> distance,
              pathLoss |-> fallbackPathLoss,
              linkBudget |-> fallbackLinkBudget,
              hasObstructions |-> FALSE,
              obstructions |-> <<>>,
              optimalSpreadingFactor |-> getOptimalSpreadingFactor(distance),
              linkQuality |-> assessLinkQuality(fallbackLinkBudget.linkMargin, FALSE)]
        ELSE [fallback |-> FALSE,
              distance |-> distance,
              pathLoss |-> pathLoss,
              linkBudget |-> linkBudget,
              hasObstructions |-> terrainAnalysis.hasObstructions,
              obstructions |-> terrainAnalysis.obstructions,
              optimalSpreadingFactor |-> optimizeSpreadingFactor(linkBudget),
              linkQuality |-> assessLinkQuality(linkBudget.linkMargin,
                                                terrainAnalysis.hasObstructions)]

---------------------------------------------------------------------------
(* The RF and path functions applied to one argument list each.            *)

\* Bounds: the elevations and hills of the profiles and the antenna heights
\* of the analyses, in centimetres.
BaseElevation == 30000
SmallHill == 2000
BigHill == 50000
LowAntenna == 1
HandheldAntenna == 183

\* Path lengths in hectometres, each with an entry in FSPLByDistance.
PathLengths == {0, 10, 45, 200}
LinkDistances == {0, 10, 30, 45, 80, 200, 3000}
AntennaHeights == {LowAntenna, HandheldAntenna, TxAntennaHeight}

\* Profiles over a path of length total: none, one sample, flat ones of 2
\* to 4 samples, one and two hills, a dip and a slope.
ProfilesOver(total) ==
    LET near == total \div 3
        mid == total \div 2
        far == (2 * total) \div 3
    IN  UNION {
          { <<>>,
            <<Sample(0, e)>>,
            <<Sample(0, e), Sample(total, e)>>,
            <<Sample(0, e), Sample(mid, e), Sample(total, e)>>,
            <<Sample(0, e), Sample(near, e), Sample(far, e), Sample(total, e)>>,
            <<Sample(0, e), Sample(0, e), Sample(total, e), Sample(total, e)>>,
            <<Sample(0, e), Sample(mid, e + SmallHill), Sample(total, e)>>,
            <<Sample(0, e), Sample(mid, e + BigHill), Sample(total, e)>>,
            <<Sample(0, e), Sample(near, e + SmallHill), Sample(far, e + BigHill),
              Sample(total, e)>>,
            <<Sample(0, e + SmallHill), Sample(mid, e), Sample(total, e + SmallHill)>>,
            <<Sample(0, e), Sample(mid, e), Sample(total, e + BigHill)>> }
          : e \in {0, BaseElevation} }

\* An entry of results.obstructions, as analyzeFresnelClearance pushes it.
Obstruction(d, e, required, radius) ==
    [distance |-> d, elevation |-> e, requiredHeight |-> required,
     obstruction |-> e - required, fresnelRadius |-> radius]

MaxObstructions == 6    \* longest obstruction list handed to calculatePathLoss

\* Obstruction lists of n entries spread over a path, with the heights
\* above the required line drawn from hs in turn.
ObstructionsOver(total, n, hs) ==
    [k \in 1..n |-> Obstruction((k * total) \div (n + 1),
                                BaseElevation + hs[((k - 1) % Len(hs)) + 1],
                                BaseElevation, 0)]

HillOrders ==
    {<<SmallHill>>, <<BigHill>>, <<SmallHill, BigHill>>, <<BigHill, SmallHill>>,
     <<SmallHill, BigHill, SmallHill>>, <<BigHill, BigHill>>}

\* Terrain analyses: of every obstruction list, and the one of a profile of
\* fewer than 2 samples (obstructed, with an empty list).
TerrainAnalyses(total) ==
    {[hasObstructions |-> n > 0,
      obstructions |-> ObstructionsOver(total, n, hs),
      minClearance |-> 0] : n \in 0..MaxObstructions, hs \in HillOrders}
      \cup {[hasObstructions |-> TRUE, obstructions |-> <<>>,
              minClearance |-> Infinity]}

\* ElevationService.generatePathPoints(start, end, samples), for two points
\* of one meridian (coordinates in millidegrees): the great circle is the
\* meridian and the spherical interpolation is linear in the latitude.
\* c is 0 exactly when the points coincide; then A = sin((1 - f) c) / sin(c)
\* and B = sin(f c) / sin(c) are 0 / 0 = NaN, and so are x, y, z, lat, lon.
\* fraction = i / (samples - 1) is 0 / 0 = NaN for samples = 1, which is
\* neither === 0 nor === 1.
generatePathPoints(start, end, samples) ==
    [k \in 1..samples |->
        IF samples > 1 /\ k = 1 THEN start
        ELSE IF samples > 1 /\ k = samples THEN end
        ELSE IF samples = 1 \/ start = end THEN [lat |-> NaN, lng |-> NaN]
        ELSE [lat |-> start.lat + ((k - 1) * (end.lat - start.lat)) \div (samples - 1),
              lng |-> start.lng]]

MaxPathSamples == 5    \* most points asked of generatePathPoints

PathEnds == {[lat |-> la, lng |-> 10000] : la \in {0 - 12000, 0, 45000}}

Margins ==
    {b + d : b \in {0 - 1000, 0 - 500, 0, 500, 1500, 2000}, d \in {0 - 1, 0, 1}}
      \cup {0 - 2500, 0 - 750, 0 - 250, 250, 1000, 1750, 3000,
            NaN, Infinity, NegInfinity}

RfArgs ==
    UNION {
      {[f |-> "calculateFSPL", distance |-> d] : d \in {0 - 10, 0, 1, 10, 200}},
      {[f |-> "freeSpacePathLoss", distance |-> d] : d \in {0 - StepSize, 0, StepSize, 2 * StepSize}},
      UNION {{[f |-> g, profile |-> p, txHeight |-> h[1], rxHeight |-> h[2], total |-> t]
                : g \in {"analyzeFresnelClearance", "analyzeTerrainProfile"},
                  p \in ProfilesOver(t),
                  h \in {<<a, a>> : a \in AntennaHeights}
                          \cup {<<TxAntennaHeight, HandheldAntenna>>}}
             : t \in PathLengths},
      UNION {{[f |-> "calculateLinkBudget", power |-> w, distance |-> t, profile |-> p]
                : w \in {15, OneWatt}, p \in ProfilesOver(t)}
             : t \in LinkDistances},
      {[f |-> "calculateKnifeEdgeLoss", h |-> h, d1 |-> d[1], d2 |-> d[2]]
         : h \in {0 - BigHill, 0 - SmallHill, 0 - 100, 0, 100, SmallHill, BigHill},
           d \in {<<0, 10>>, <<5, 5>>, <<22, 23>>, <<100, 100>>, <<10, 0>>}},
      UNION {{[f |-> "calculatePathLoss", distance |-> t, terrainAnalysis |-> a]
                : a \in TerrainAnalyses(t)}
             : t \in {5, 10, 45, 50, 80}},
      {[f |-> "generatePathPoints", start |-> a, end |-> b, samples |-> n]
         : a \in PathEnds, b \in PathEnds, n \in 1..MaxPathSamples},
      {[f |-> "assessLinkQuality", margin |-> m, hasObstructions |-> o]
         : m \in Margins, o \in BOOLEAN},
      {[f |-> "calculateReliability", margin |-> m] : m \in Margins} }

Value(x) == [value |-> x]

Apply(name, result) ==
    /\ fn = "idle"
    /\ arg.f = name
    /\ fn' = name
    /\ ret' = result
    /\ UNCHANGED <<arg, covVars, svcVars, epVars, uiVars>>

CalculateFSPL ==
    /\ arg.f = "calculateFSPL"
    /\ Apply("calculateFSPL", Value(calculateFSPL(arg.distance)))

FreeSpacePathLoss ==
    /\ arg.f = "freeSpacePathLoss"
    /\ Apply("freeSpacePathLoss", Value(freeSpacePathLossAt(arg.distance)))

AnalyzeFresnelClearance ==
    /\ arg.f = "analyzeFresnelClearance"
    /\ Apply("analyzeFresnelClearance",
             analyzeFresnelClearance(arg.profile, arg.txHeight, arg.rxHeight, arg.total))

AnalyzeTerrainProfile ==
    /\ arg.f = "analyzeTerrainProfile"
    /\ Apply("analyzeTerrainProfile",
             analyzeTerrainProfile(arg.profile, arg.total, arg.txHeight, arg.rxHeight))

CalculateLinkBudget ==
    /\ arg.f = "calculateLinkBudget"
    /\ Apply("calculateLinkBudget",
             calculateLinkBudget(arg.power, arg.distance, arg.profile,
                                 TxAntennaHeight, TxAntennaHeight))

CalculateKnifeEdgeLoss ==
    /\ arg.f = "calculateKnifeEdgeLoss"
    /\ Apply("calculateKnifeEdgeLoss",
             Value(calculateKnifeEdgeLoss(arg.h, arg.d1, arg.d2)))

CalculatePathLoss ==
    /\ arg.f = "calculatePathLoss"
    /\ Apply("calculatePathLoss",
             calculatePathLoss(arg.distance, arg.terrainAnalysis))

GeneratePathPoints ==
    /\ arg.f = "generatePathPoints"
    /\ Apply("generatePathPoints",
             Value(generatePathPoints(arg.start, arg.end, arg.samples)))

AssessLinkQuality ==
    /\ arg.f = "assessLinkQuality"
    /\ Apply("assessLinkQuality",
             Value(assessLinkQuality(arg.margin, arg.hasObstructions)))

CalculateReliability ==
    /\ arg.f = "calculateReliability"
    /\ Apply("calculateReliability", Value(calculateReliability(arg.margin)))

RfInit ==
    /\ CovIdle
    /\ SvcIdle
    /\ EpIdle
    /\ UiIdle
    /\ fn = "idle"
    /\ arg \in RfArgs
    /\ ret = NoArg

RfNext ==
    \/ CalculateFSPL
    \/ FreeSpacePathLoss
    \/ AnalyzeFresnelClearance
    \/ AnalyzeTerrainProfile
    \/ CalculateLinkBudget
    \/ CalculateKnifeEdgeLoss
    \/ CalculatePathLoss
    \/ GeneratePathPoints
    \/ AssessLinkQuality
    \/ CalculateReliability

RfSpec == RfInit /\ [][RfNext]_vars

---------------------------------------------------------------------------
(* The elevation endpoint (api/elevation.js): getElevationProfile for one  *)
(* path.  ep.cache maps the sample count (the part of the cache key that   *)
(* varies here) to the profile cached;                                     *)
(* ep.fetches holds, per sampling point, where its async callback is:      *)
(* "fetch" (awaiting fetch(url)), "json" (awaiting response.json()) or     *)
(* "done" with the elevation of its sample.  A profile is the sequence of  *)
(* the elevations of its samples, in metres.                               *)

DefaultElevation == 100    \* elevation: 100, // Default elevation
MinEndpointSamples == 2    \* numSamples < 2 is refused by the handler

MaxEndpointSamples == 3    \* largest sample count asked for

EndpointSamples == MinEndpointSamples..MaxEndpointSamples

\* cache.set(cacheKey, {data, timestamp})
EpCacheSet(entries, key, data) ==
    [k \in DOMAIN entries \cup {key} |-> IF k = key THEN data ELSE entries[k]]

\* points.map(async (point, index) => ...): every callback runs to its
\* await fetch(url) before map returns.
StartPointFetches(n) == [k \in 1..n |-> [st |-> "fetch", elevation |-> 0]]

PointDone(e) == [st |-> "done", elevation |-> e]

\* data.elevation || 100
ElevationOrDefault(e) == IF e = 0 THEN DefaultElevation ELSE e

\* getElevationProfile up to its first await: the cached profile, when
\* there is one younger than CACHE_TTL (fresh), or the fan-out.
EndpointCall ==
    /\ ep.pc \in {"idle", "returned"}
    /\ \E n \in EndpointSamples, fresh \in BOOLEAN :
          IF n \in DOMAIN ep.cache /\ fresh
          THEN ep' = [ep EXCEPT !.pc = "returned", !.samples = n,
                                !.fetches = <<>>, !.out = ep.cache[n]]
          ELSE ep' = [ep EXCEPT !.pc = "awaitAll", !.samples = n,
                                !.fetches = StartPointFetches(n),
                                !.out = <<>>]
    /\ UNCHANGED <<covVars, svcVars, rfVars, uiVars>>

\* fetch(url) of point k resolves: !response.ok gives the default sample.
PointFetchResolves(k) ==
    /\ ep.fetches[k].st = "fetch"
    /\ \E ok \in BOOLEAN :
          ep' = [ep EXCEPT !.fetches[k] =
                    IF ok THEN [st |-> "json", elevation |-> 0]
                    ELSE PointDone(DefaultElevation)]
    /\ UNCHANGED <<covVars, svcVars, rfVars, uiVars>>

\* fetch(url) of point k rejects: the catch of the callback.
PointFetchRejects(k) ==
    /\ ep.fetches[k].st = "fetch"
    /\ ep' = [ep EXCEPT !.fetches[k] = PointDone(DefaultElevation)]
    /\ UNCHANGED <<covVars, svcVars, rfVars, uiVars>>

\* response.json() of point k resolves.
PointJsonResolves(k) ==
    /\ ep.fetches[k].st = "json"
    /\ \E e \in {0, ProviderElevation} :
          ep' = [ep EXCEPT !.fetches[k] = PointDone(ElevationOrDefault(e))]
    /\ UNCHANGED <<covVars, svcVars, rfVars, uiVars>>

\* response.json() of point k rejects: the catch of the callback.
PointJsonRejects(k) ==
    /\ ep.fetches[k].st = "json"
    /\ ep' = [ep EXCEPT !.fetches[k] = PointDone(DefaultElevation)]
    /\ UNCHANGED <<covVars, svcVars, rfVars, uiVars>>

\* await Promise.all(elevationPromises) resumes: the profile is cached and
\* returned.
EndpointJoin ==
    /\ ep.pc = "awaitAll"
    /\ \A k \in DOMAIN ep.fetches : ep.fetches[k].st = "done"
    /\ LET profile == [k \in DOMAIN ep.fetches |-> ep.fetches[k].elevation]
       IN  ep' = [ep EXCEPT !.pc = "returned", !.fetches = <<>>,
                            !.cache = EpCacheSet(ep.cache, ep.samples, profile),
                            !.out = profile]
    /\ UNCHANGED <<covVars, svcVars, rfVars, uiVars>>

EpInit ==
    /\ CovIdle
    /\ SvcIdle
    /\ RfIdle
    /\ EpIdle
    /\ UiIdle

EpNext ==
    \/ EndpointCall
    \/ \E k \in DOMAIN ep.fetches : PointFetchResolves(k)
    \/ \E k \in DOMAIN ep.fetches : PointFetchRejects(k)
    \/ \E k \in DOMAIN ep.fetches : PointJsonResolves(k)
    \/ \E k \in DOMAIN ep.fetches : PointJsonRejects(k)
    \/ EndpointJoin

EpSpec == EpInit /\ [][EpNext]_vars

---------------------------------------------------------------------------
(***************************************************************************)
(* The planner page: class LoRaMeshPlanner of the main application script  *)
(* (the variant whose links are computed by linkBudgetCalculator).         *)
(*                                                                         *)
(* ui.transmitters  this.transmitters, in insertion order                  *)
(* ui.currentPower  this.currentPower, in centiwatts                       *)
(* ui.linkLines     this.linkLines: one entry per linkId                   *)
(* ui.onMap         the polylines that are layers of the Leaflet map       *)
(* ui.pending       the calculateAdvancedLink calls waiting at their await *)
(* ui.now           Date.now() as read by the last addTransmitter          *)
(* ui.polylines     the number of L.polyline objects created so far        *)
(***************************************************************************)
MaxTransmitters == 3   \* transmitters placed in one behaviour
MaxPending == 3        \* link calculations waiting at once
MaxPolylines == 3      \* polylines created in one behaviour

LowPower == 15         \* 0.15 W
HighPower == 100       \* 1.0 W
Positions == {0, 1}    \* the places a marker can be put or dragged to

\* The ids of this.transmitters.
TransmitterIds(u) == {u.transmitters[k].id : k \in DOMAIN u.transmitters}

\* [id1, id2].sort().join('-')
LinkId(id1, id2) == IF id1 < id2 THEN <<id1, id2>> ELSE <<id2, id1>>

\* linkId.includes(transmitterId).  The ids are 'tx_' followed by the
\* digits of Date.now(), so the id occurs in 'tx_a-tx_b' exactly when it is
\* one of the two.
Includes(linkId, id) == id = linkId[1] \/ id = linkId[2]

\* removeLinkLines(transmitterId): every recorded line of the transmitter
\* is taken off the map and out of linkLines.
removeLinkLines(u, id) ==
    [u EXCEPT !.onMap = @ \ {e.line : e \in {x \in u.linkLines :
                                                Includes(x.linkId, id)}},
              !.linkLines = {x \in @ : ~Includes(x.linkId, id)}]

\* The calculateAdvancedLink calls updateLinksForTransmitter starts, one
\* per other transmitter in the order of this.transmitters; each runs up to
\* its await of calculateLinkBudget.
LinkCalls(u, id) ==
    LET others == SelectSeq(u.transmitters, LAMBDA t : t.id # id)
    IN  [k \in DOMAIN others |-> [id1 |-> id, id2 |-> others[k].id]]

\* updateLinksForTransmitter(transmitterId) up to its await of Promise.all;
\* what follows the await only hides the loading overlay and refreshes the
\* counters.
updateLinksForTransmitter(u, id) ==
    IF id \notin TransmitterIds(u) THEN u
    ELSE LET r == removeLinkLines(u, id)
         IN  [r EXCEPT !.pending = @ \o LinkCalls(r, id)]

\* The loop of updateAllLinks from transmitterIds[j] on: the calls are
\* not awaited, so every one has started before any calculation completes.
RECURSIVE UpdateEach(_, _, _)
UpdateEach(u, ids, j) ==
    IF j > Len(ids) THEN u
    ELSE UpdateEach(updateLinksForTransmitter(u, ids[j]), ids, j + 1)

\* updateAllLinks(): every recorded line is taken off the map, linkLines is
\* cleared, and the links of every transmitter are recalculated.
updateAllLinks(u) ==
    LET cleared == [u EXCEPT !.onMap = @ \ {e.line : e \in u.linkLines},
                             !.linkLines = {}]
        ids == [k \in DOMAIN u.transmitters |-> u.transmitters[k].id]
    IN  UpdateEach(cleared, ids, 1)

\* drawEnhancedLinkLine (enhanced) and drawLinkLine: nothing when one of
\* the transmitters is gone; otherwise a new polyline is added to the map
\* and this.linkLines.set(linkId, ...) records it, in place of whatever was
\* recorded under the linkId.
DrawLine(u, id1, id2, enhanced) ==
    IF id1 \notin TransmitterIds(u) \/ id2 \notin TransmitterIds(u) THEN u
    ELSE LET line == [n |-> u.polylines + 1, linkId |-> LinkId(id1, id2),
                      enhanced |-> enhanced]
         IN  [u EXCEPT !.polylines = @ + 1,
                       !.onMap = @ \cup {line},
                       !.linkLines = {x \in @ : x.linkId # line.linkId}
                                       \cup {[linkId |-> line.linkId,
                                              line |-> line]}]

\* The sequence s without its k-th element.
Without(s, k) == [j \in 1..(Len(s) - 1) |-> IF j < k THEN s[j] ELSE s[j + 1]]

\* The map is clicked: addTransmitter(latlng).
AddTransmitter ==
    /\ ui.now < MaxTransmitters
    /\ Len(ui.pending) + Len(ui.transmitters) <= MaxPending
    /\ \E latlng \in Positions :
          LET id == ui.now + 1
              added == [ui EXCEPT !.now = id,
                                  !.transmitters =
                                      Append(@, [id |-> id, latlng |-> latlng,
                                                 power |-> ui.currentPower])]
          IN  ui' = updateLinksForTransmitter(added, id)
    /\ UNCHANGED <<covVars, svcVars, rfVars, epVars>>

\* A marker is dropped after a drag: the dragend handler.
DragEnd(k) ==
    /\ Len(ui.pending) + Len(ui.transmitters) - 1 <= MaxPending
    /\ \E latlng \in Positions \ {ui.transmitters[k].latlng} :
          ui' = updateLinksForTransmitter(
                    [ui EXCEPT !.transmitters[k].latlng = latlng],
                    ui.transmitters[k].id)
    /\ UNCHANGED <<covVars, svcVars, rfVars, epVars>>

\* toggleTransmitterPower(id) from the context menu.
ToggleTransmitterPower(k) ==
    /\ Len(ui.pending) + Len(ui.transmitters) - 1 <= MaxPending
    /\ ui' = updateLinksForTransmitter(
                 [ui EXCEPT !.transmitters[k].power =
                                IF @ >= HighPower THEN LowPower ELSE HighPower],
                 ui.transmitters[k].id)
    /\ UNCHANGED <<covVars, svcVars, rfVars, epVars>>

\* removeTransmitter(id) from the context menu.
RemoveTransmitter(k) ==
    /\ ui' = [removeLinkLines(ui, ui.transmitters[k].id)
                 EXCEPT !.transmitters = Without(@, k)]
    /\ UNCHANGED <<covVars, svcVars, rfVars, epVars>>

\* The clear button, confirmed: clearAll().  The link calculations that
\* are waiting are not cancelled.
ClearAll ==
    /\ ui.transmitters # <<>>
    /\ ui' = [ui EXCEPT !.transmitters = <<>>,
                        !.onMap = @ \ {e.line : e \in ui.linkLines},
                        !.linkLines = {}]
    /\ UNCHANGED <<covVars, svcVars, rfVars, epVars>>

\* The power dropdown changes: currentPower is set and updateAllLinks()
\* recalculates every link.
PowerSelectChange ==
    /\ Len(ui.pending) + Len(ui.transmitters) * (Len(ui.transmitters) - 1)
          <= MaxPending
    /\ \E p \in {LowPower, HighPower} \ {ui.currentPower} :
          ui' = updateAllLinks([ui EXCEPT !.currentPower = p])
    /\ UNCHANGED <<covVars, svcVars, rfVars, epVars>>

\* calculateLinkBudget resolves: calculateAdvancedLink draws the enhanced
\* line.
LinkCalculationResolves(k) ==
    /\ ui.polylines < MaxPolylines
    /\ ui' = [DrawLine(ui, ui.pending[k].id1, ui.pending[k].id2, TRUE)
                 EXCEPT !.pending = Without(@, k)]
    /\ UNCHANGED <<covVars, svcVars, rfVars, epVars>>

\* calculateLinkBudget rejects: the catch of calculateAdvancedLink draws
\* the simple line.
LinkCalculationRejects(k) ==
    /\ ui.polylines < MaxPolylines
    /\ ui' = [DrawLine(ui, ui.pending[k].id1, ui.pending[k].id2, FALSE)
                 EXCEPT !.pending = Without(@, k)]
    /\ UNCHANGED <<covVars, svcVars, rfVars, epVars>>

UiInit ==
    /\ CovIdle
    /\ SvcIdle
    /\ RfIdle
    /\ EpIdle
    /\ UiIdle

UiNext ==
    \/ AddTransmitter
    \/ \E k \in DOMAIN ui.transmitters : DragEnd(k)
    \/ \E k \in DOMAIN ui.transmitters : ToggleTransmitterPower(k)
    \/ \E k \in DOMAIN ui.transmitters : RemoveTransmitter(k)
    \/ ClearAll
    \/ PowerSelectChange
    \/ \E k \in DOMAIN ui.pending : LinkCalculationResolves(k)
    \/ \E k \in DOMAIN ui.pending : LinkCalculationRejects(k)

UiSpec == UiInit /\ [][UiNext]_vars


---------------------------------------------------------------------------
(* Properties.                                                             *)

Answered == pc = "done" /\ status = 200 /\ req.method # "OPTIONS"

\* C1: every accepted request is answered, whatever the elevation provider
\* does (success, HTTP error, thrown error, timeout, failing on every call),
\* with a polygon of at least 3 points, each at a distance > 0; the handler
\* never answers 500.
C1_ValidPolygon ==
    /\ status # 500
    /\ Answered =>
         /\ body.success
         /\ Len(body.polygon) >= 3
         /\ \A n \in DOMAIN body.polygon : body.polygon[n].distance > 0

\* C1 witness: a time-boxed run answered after the provider stopped
\* answering, its probes accepted by the catch block on the 3 s timer.
C1_Witness ==
    /\ Answered
    /\ stalled
    /\ stepFallback
    /\ Len(body.polygon) >= 3

InFlight(r) == r.st \in {"fetch", "json"}

\* C3: a ray probes 0.5, 1.0, 1.5, ... km in increasing order up to
\* maxRange, one probe at a time; it returns at the first probe whose link
\* margin is below 10 dB, probes nothing beyond it, and returns the probed
\* distance before it as coverageDistance (0 when the first probe fails).
C3_FirstFailureEndsRay ==
    /\ [](\A k \in DOMAIN rays :
            LET r == rays[k]
            IN  /\ r.d % StepSize = 0 /\ r.d >= StepSize
                /\ r.last = r.d - StepSize
                /\ InFlight(r) => Le(r.d, rangeLimit)
                /\ r.stop = "margin" => r.st = "done" /\ Le(r.d, rangeLimit)
                /\ r.stop = "range" => r.st = "done" /\ ~Le(r.d, rangeLimit))
    /\ [][\A k \in DOMAIN rays :
            LET r == rays[k]
                t == rays'[k]
            IN  IF r.st = "done" THEN t = r
                ELSE \/ t = r
                     \/ r.st = "fetch" /\ t = [r EXCEPT !.st = "json"]
                     \/ t.d = r.d + StepSize /\ t.stop \in {"none", "range"}
                     \/ t.d = r.d /\ t.st = "done"
                          /\ t.stop \in {"margin", "estimate"}]_vars

\* C3 witness: a ray that returned at a failing probe after good ones.
C3_Witness ==
    \E k \in DOMAIN rays :
        /\ pc = "ray"
        /\ rays[k].stop = "margin"
        /\ rays[k].last >= 2 * StepSize

\* The estimate of the claim: 15 km for power >= 1.0 W, otherwise 8 km.
C4_Estimate(p) == IF p >= 100 THEN 150 ELSE 80

\* The elevation request of ray k throws: the fetch rejects, the 3 s timer
\* rejects first, or the body fails to parse.
C4_Throws(k) == FetchRejects(k) \/ FetchTimeout(k) \/ JsonRejects(k)

\* C4: when the elevation request of a probe throws, the call does not
\* abort: the probe counts as good exactly if its distance is within the
\* power-dependent estimate, and then the march goes on with the next probe;
\* the call still returns a result, and the other rays of the batch are left
\* as they were.
C4_ThrowIsEstimated ==
    [][\A k \in DOMAIN rays :
          C4_Throws(k) =>
            /\ rays'[k].st \in {"fetch", "done"}
            /\ IF rays[k].d <= C4_Estimate(power)
               THEN /\ rays'[k].last = rays[k].d
                    /\ rays'[k].d = rays[k].d + StepSize
                    /\ rays'[k].stop \in {"none", "range"}
               ELSE rays'[k].last = rays[k].last
            /\ \A j \in DOMAIN rays \ {k} : rays'[j] = rays[j]]_vars

\* C4 witness: one ray ended by a throw beyond the estimate, after probes
\* accepted by the estimate, while the other ray of the batch is marching.
C4_Witness ==
    \E k, j \in DOMAIN rays :
        /\ pc = "ray"
        /\ k # j
        /\ rays[k].stop = "estimate"
        /\ InFlight(rays[j])
        /\ stepFallback


\* C2: for a 1.0 W transmitter over flat terrain and a numeric resolution,
\* every point of the returned polygon (ray-marched, estimated after the
\* time budget, or of the fallback circle) has a distance <= the maxRange
\* of the request.
C2_WithinMaxRange ==
    (Answered /\ power = 100 /\ terrain = "flat" /\ ~IsNaN(numResolution(req))) =>
        \A n \in DOMAIN body.polygon : Le(body.polygon[n].distance, rangeArg)

\* C5: generateCoveragePolygon returns in every execution, also when an
\* elevation request never completes: short of the answer there is always
\* a next step.
C5_AlwaysReturns == pc = "done" \/ ENABLED Next

\* A result holds a point that was not ray-marched over terrain data: a
\* probe accepted by the catch block, a bearing filled after the budget, or
\* the fallback circle.
Degraded ==
    \/ stepFallback
    \/ \E n \in DOMAIN results : results[n].m = TimeoutFillMargin
    \/ Len(CoveragePoints(results, angles, Len(results))) < 3

\* The names a flag marking a partial or approximate result could have.
ApproxFlags == {"partial", "approximate", "approx", "estimated", "degraded",
                "fallback", "timeout"}

\* C6: a result that holds a point not ray-marched over terrain data is
\* returned with a flag that marks it partial/approximate.
C6_DegradedIsFlagged ==
    (Answered /\ Degraded) =>
        \E f \in (DOMAIN body) \cap ApproxFlags : body[f] = TRUE

\* C7: for an accepted numeric resolution r the bearings are exactly
\* 0, r, 2r, ... below 360 (15 gives 24 bearings, 10 gives 36).
C7_BearingsFollowResolution ==
    LET r == numResolution(req)
    IN  (pc # "recv" /\ angles # <<>> /\ ~IsNaN(r)) =>
            /\ \A n \in DOMAIN angles : angles[n] = (n - 1) * r
            /\ (Len(angles) - 1) * r < 360
            /\ Len(angles) * r >= 360

\* C8: the returned polygon is sorted by bearing, its angles strictly
\* increasing.
C8_SortedByBearing ==
    Answered =>
        \A n \in 1..(Len(body.polygon) - 1) :
            body.polygon[n].angle < body.polygon[n + 1].angle

\* C9: when fewer than 3 bearings yield a positive coverage distance, the
\* returned polygon is the regular one: exactly 12 points at 0, 30, ...,
\* 330 degrees, all at 10 km (power >= 1.0 W) or 6 km.
C9_RegularFallback ==
    (Answered /\ Cardinality({n \in DOMAIN results : results[n].d > 0}) < 3) =>
        /\ Len(body.polygon) = 12
        /\ \A n \in DOMAIN body.polygon :
              /\ body.polygon[n].angle = (n - 1) * 30
              /\ body.polygon[n].distance = IF power >= 100 THEN 100 ELSE 60

\* A request within the bounds of the claim: lat, lng and power numeric
\* with |lat| <= 90, |lng| <= 180 and power in [0.1, 5] W; resolution
\* absent or numeric in [5, 90].
C10_Numeric(raw) == raw.k \in {"num", "str"}
C10_Valid(r) ==
    /\ C10_Numeric(r.lat) /\ Abs(r.lat.v) <= 90
    /\ C10_Numeric(r.lng) /\ Abs(r.lng.v) <= 180
    /\ C10_Numeric(r.power) /\ r.power.v >= 10 /\ r.power.v <= 500
    /\ \/ r.resolution.k = "absent"
       \/ C10_Numeric(r.resolution) /\ r.resolution.v >= 5 /\ r.resolution.v <= 90

\* C10: a GET or POST request is answered 200 with a polygon exactly when
\* it is within the bounds, and 400 with no ray started otherwise.
C10_ValidationIsExact ==
    (pc = "done" /\ req.method \in {"GET", "POST"}) =>
        IF C10_Valid(req)
        THEN status = 200 /\ "polygon" \in DOMAIN body
        ELSE status = 400 /\ started = 0


\* C11: a returned elevation profile has exactly the requested number of
\* samples, sample j being the j-th point of the path, with first distance
\* 0 and non-decreasing distances, whatever the provider's responses hold.
C11_ExactSamplesInOrder ==
    \A k \in DOMAIN calls :
        calls[k].st = "done" =>
            LET p == calls[k].out
            IN  /\ Len(p) = calls[k].samples
                /\ \A j \in DOMAIN p : p[j].point = j
                /\ p[1].distance = 0
                /\ \A j \in 1..(Len(p) - 1) : p[j].distance <= p[j + 1].distance

\* C12: getElevationProfile never fails to its caller; it tries at most two
\* providers, the second being OpenTopoData after a failed Open-Meteo
\* request, and returns the flat estimate only after OpenTopoData failed
\* too.
C12_RetryThenEstimate ==
    \A k \in DOMAIN calls :
        LET c == calls[k]
        IN  /\ c.st \in {"fetch", "json", "done"}
            /\ Len(c.attempts) <= 2
            /\ Len(c.attempts) = 2 => c.attempts = <<"openMeteo", "openTopo">>
            /\ c.kind = "estimated" => c.attempts[Len(c.attempts)] = "openTopo"


\* C13: the free-space path loss of a distance <= 0 is an error, not a
\* value, and the link budget of two coincident points is an error, not a
\* result.
C13_NoLossAtZero ==
    (/\ fn \in {"calculateFSPL", "freeSpacePathLoss", "calculateLinkBudget"}
     /\ arg.distance <= 0)
        => "error" \in DOMAIN ret

\* A result marked invalid.
MarkedInvalid(r) == "error" \in DOMAIN r /\ r.error # "none"

\* C14: both clearance analyses mark the result of a profile with fewer
\* than 2 samples invalid.
C14_ShortProfileRejected ==
    (/\ fn \in {"analyzeFresnelClearance", "analyzeTerrainProfile"}
     /\ Len(arg.profile) < 2)
        => MarkedInvalid(ret)

\* A profile of at least 2 samples with all elevations equal.
IsFlat(profile) ==
    /\ Len(profile) >= 2
    /\ \A j \in DOMAIN profile : profile[j].elevation = profile[1].elevation

\* C15: over a flat profile with equal positive antenna heights the
\* clearance is adequate and no obstruction is listed, and the path loss of
\* the link has no diffraction and no terrain loss.
C15_FlatIsClear ==
    /\ (/\ fn = "analyzeFresnelClearance"
        /\ IsFlat(arg.profile)
        /\ arg.txHeight = arg.rxHeight
        /\ arg.txHeight > 0)
           => ret.hasAdequateClearance /\ ret.obstructions = <<>>
    /\ (fn = "calculateLinkBudget" /\ IsFlat(arg.profile))
           => /\ ~ret.fallback
              /\ ~ret.hasObstructions
              /\ ret.pathLoss.diffraction = 0
              /\ ret.pathLoss.terrain = 0

\* C15 witness: a flat profile with samples between the ends, over a path
\* of positive length, analysed as clear.
C15_Witness ==
    /\ fn = "analyzeFresnelClearance"
    /\ IsFlat(arg.profile)
    /\ Len(arg.profile) >= 3
    /\ arg.total > 0
    /\ arg.txHeight = arg.rxHeight
    /\ ret.hasAdequateClearance
    /\ ret.minClearance # Infinity

\* C16: without obstructions a margin below 0 dB is rated poor, between 0
\* and 5 dB marginal, between 5 and 15 dB good and above 15 dB excellent.
C16_QualityTable ==
    (/\ fn = "assessLinkQuality"
     /\ ~arg.hasObstructions
     /\ arg.margin \notin {NaN, Infinity, NegInfinity, 0, 500, 1500})
        => ret.value = IF arg.margin < 0 THEN "poor"
                       ELSE IF arg.margin < 500 THEN "marginal"
                       ELSE IF arg.margin < 1500 THEN "good"
                       ELSE "excellent"

\* C17: the link margin reported is rxSignal - sensitivity(final SF) -
\* fadeMargin, and isViable and reliability are those of that margin.
C17_MarginOfFinalSF ==
    (fn = "calculateLinkBudget" /\ arg.distance > 0) =>
        LET b == ret.linkBudget
            final == Minus(Minus(b.rxSignalStrength,
                                 Sensitivity(ret.optimalSpreadingFactor)),
                           b.fadeMargin)
        IN  /\ b.linkMargin = final
            /\ b.isViable = Gt(final, 0)
            /\ b.reliability = calculateReliability(final)

\* C18: at the margins -10, 0 and 20 dB the reliability is within the
\* steepest slope (0.05 per 0.01 dB) of its value 0.01 dB below.
C18_ReliabilityContinuous ==
    (fn = "calculateReliability" /\ arg.margin \in {0 - 1000, 0, 2000}) =>
        Abs(ret.value - calculateReliability(arg.margin - 1)) <= 5


\* The budget test at the head of the batch loop finds the budget exceeded.
BudgetExceededAtBoundary ==
    pc = "loop" /\ i < Len(angles) /\ variant = "timeboxed" /\ overBudget

\* One result per bearing, result n lying on bearing n.
OneResultPerBearing(res) ==
    /\ Len(res) = Len(angles)
    /\ \A n \in 1..Len(angles) : res[n].b = angles[n]

\* C19: once the budget test at a batch boundary finds the 8 s exceeded, no
\* further calculateCoverageInDirection call is started, every bearing not
\* yet processed (angles[i..]) gets exactly one estimated result
\* (estimateCoverageRadius), and the loop is left; after the loop there is
\* one result per bearing, result n on bearing n, and no call starts.  (A
\* fetch abandoned by an earlier ray's timeout may still settle at the
\* boundary: that is no step of the loop.)
C19_BudgetFill ==
    [][/\ BudgetExceededAtBoundary /\ abandoned' = abandoned =>
            /\ started' = started
            /\ rays' = rays
            /\ pc' = "build"
            /\ SubSeq(results', 1, i) = results
            /\ \A n \in (i + 1)..Len(angles) :
                  results'[n] = Result(angles[n], estimateCoverageRadius(power),
                                       TimeoutFillMargin)
            /\ OneResultPerBearing(results')
       /\ pc \in {"build", "done"} /\ status' = 200 =>
            /\ OneResultPerBearing(results)
            /\ started' = started
            /\ results' = results]_vars

\* C19 witness: the second batch boundary of a 9-bearing request found the
\* budget exceeded: 6 rays were started and marched, the last 3 bearings
\* hold estimated results.
C19_Witness ==
    /\ variant = "timeboxed"
    /\ overBudget
    /\ pc = "build"
    /\ i = TimeboxedBatchSize
    /\ started = TimeboxedBatchSize
    /\ Len(angles) > TimeboxedBatchSize
    /\ \A n \in (i + 1)..Len(angles) : results[n].m = TimeoutFillMargin
    /\ \E n \in 1..i : results[n].d > 0


\* A ray of the current batch is still marching.
StillMarching == \E k \in DOMAIN rays : rays[k].st # "done"

\* A polygon point taken from the result of a ray on a bearing of late.
FromRayOf(point, late) ==
    point.angle \in late /\ point.linkMargin = RayLinkMargin

\* C20: after the 8 s budget is exceeded generateCoveragePolygon does not
\* wait for a ray that is still marching, and the polygon answered holds
\* no result of a ray that returned after the budget was exceeded.
C20_LateWorkAbandoned ==
    (variant = "timeboxed" /\ overBudget) =>
        /\ ~(pc = "awaitBatch" /\ StillMarching)
        /\ status = 200 =>
              \A n \in DOMAIN body.polygon : ~FromRayOf(body.polygon[n], lateRays)


\* The calculateCoverageInDirection tasks that have not returned.
Running(rs) == {k \in DOMAIN rs : rs[k].st # "done"}

\* C21: at most batchSize calculateCoverageInDirection tasks run at any
\* moment (6 time-boxed, 8 basic); tasks are started only when no task of an
\* earlier batch is left, at most batchSize at a time; and the batch is
\* joined only when every task of it has returned.
C21_FanOutJoinRepeat ==
    [][/\ Len(rays') <= BatchSize(variant)
       /\ Cardinality(Running(rays')) <= BatchSize(variant)
       /\ started' # started =>
             /\ rays = <<>>
             /\ started' - started = Len(rays')
             /\ started' - started <= BatchSize(variant)
       /\ (rays # <<>> /\ pc' # pc) => Running(rays) = {}]_vars

\* C21 witness: the second batch of a 9-bearing request is running, after
\* every task of the full first batch has returned.
C21_Witness ==
    /\ pc = "awaitBatch"
    /\ i = BatchSize(variant)
    /\ Len(results) = BatchSize(variant)
    /\ started = Len(angles)
    /\ Running(rays) # {}


\* The elevation requests sent and neither completed nor failed: the fetch
\* each ray is suspended on, and the fetches given up on by the 3 s race.
Outstanding == Cardinality({k \in DOMAIN rays : rays[k].st = "fetch"}) + abandoned

\* C22: the elevation requests of one generateCoveragePolygon call that are
\* outstanding never number more than the batch size, also after requests
\* were given up on by the 3 s timeout.
C22_OutstandingBounded == Outstanding <= BatchSize(variant)


\* The requests to the provider sent for the profile and not yet answered.
PointsOutstanding == {k \in DOMAIN ep.fetches : ep.fetches[k].st = "fetch"}

\* C23: while a profile is fetched the requests outstanding at the provider
\* stay below a fixed batch size: for a profile of more samples than the
\* smallest one, the per-sample fetches are never all outstanding at once.
C23_ProviderFanOutBounded ==
    (ep.pc = "awaitAll" /\ ep.samples > MinEndpointSamples) =>
        Cardinality(PointsOutstanding) < ep.samples


\* C24: calculateKnifeEdgeLoss returns a defined, non-negative loss for
\* every input, and no undefined diffraction loss or total comes out of
\* calculatePathLoss.
C24_KnifeEdgeLossDefined ==
    /\ fn = "calculateKnifeEdgeLoss" => (~IsNaN(ret.value) /\ ret.value >= 0)
    /\ (fn = "calculatePathLoss" /\ ~ret.thrown) =>
          (~IsNaN(ret.diffraction) /\ ~IsNaN(ret.total))


\* The obstructions of a list with the largest obstruction height.
Highest(obstructions) ==
    {k \in DOMAIN obstructions :
        \A j \in DOMAIN obstructions :
            obstructions[j].obstruction <= obstructions[k].obstruction}

\* C26: calculatePathLoss takes the diffraction loss of one obstruction, one
\* of the largest obstruction height; the terrain penalty is min(10, 2 n) dB
\* for n > 1 obstructions and 0 otherwise; the foliage loss is 0 dB below
\* 1 km, 3 dB below 5 km and 6 dB otherwise; the total is the sum of the four.
C26_PathLossComposition ==
    (fn = "calculatePathLoss" /\ ~ret.thrown) =>
        LET obs == arg.terrainAnalysis.obstructions
            n == Len(obs)
        IN  /\ ret.freeSpace = calculateFSPL(arg.distance)
            /\ IF n = 0 THEN ret.diffraction = 0
               ELSE \E k \in Highest(obs) :
                       ret.diffraction =
                           calculateKnifeEdgeLoss(obs[k].obstruction, obs[k].distance,
                                                  arg.distance - obs[k].distance)
            /\ ret.terrain = IF n > 1
                             THEN (IF 200 * n < 1000 THEN 200 * n ELSE 1000)
                             ELSE 0
            /\ ret.foliage = IF arg.distance < 10 THEN 0
                             ELSE IF arg.distance < 50 THEN 300 ELSE 600
            /\ ret.total = Plus(Plus(Plus(ret.freeSpace, ret.diffraction),
                                     ret.terrain), ret.foliage)

\* C26 witness: a list of more than 5 obstructions whose highest one is not
\* the first and whose diffraction loss differs from that of the first.
C26_Witness ==
    /\ fn = "calculatePathLoss"
    /\ ~ret.thrown
    /\ Len(arg.terrainAnalysis.obstructions) > 5
    /\ 1 \notin Highest(arg.terrainAnalysis.obstructions)
    /\ ret.terrain = 1000
    /\ ret.diffraction #
          calculateKnifeEdgeLoss(arg.terrainAnalysis.obstructions[1].obstruction,
                                 arg.terrainAnalysis.obstructions[1].distance,
                                 arg.distance
                                   - arg.terrainAnalysis.obstructions[1].distance)


\* C25: generatePathPoints(start, end, n) with start = end and n >= 2
\* returns n copies of start, none with an undefined coordinate.
C25_CoincidentPathIsCopies ==
    (fn = "generatePathPoints" /\ arg.start = arg.end /\ arg.samples >= 2) =>
        ret.value = [k \in 1..arg.samples |-> arg.start]


\* The keys of the cache, in the order of the Map (insertion order).
Keys(entries) == [j \in DOMAIN entries |-> entries[j].key]

\* Call k returns a profile of the provider in this step: it has cached it.
Caches(k) == calls[k].st # "done" /\ calls'[k].st = "done" /\ calls'[k].kind = "provider"

\* C27: the cache never holds more than maxCacheSize entries, and an
\* insertion that finds it full removes the entry inserted earliest (the
\* first of the Map) and no other.
C27_CacheBounded ==
    [][/\ Len(cache) <= MaxCacheSize
       /\ Len(cache') <= MaxCacheSize
       /\ \A k \in DOMAIN calls :
             (Caches(k) /\ Len(cache) >= MaxCacheSize) =>
                LET key == <<calls[k].path, calls[k].samples>>
                    rest == Keys(Tail(cache))
                IN  /\ Keys(cache') = IF \E j \in DOMAIN rest : rest[j] = key
                                      THEN rest ELSE Append(rest, key)
                    /\ cache'[CacheIndex(cache', key)].data = calls'[k].out]_vars

\* C27 witness: a profile was cached in a full cache: the oldest entry is
\* gone, the second oldest is the first now, and the cache is full again.
C27_Witness ==
    /\ Len(cache) = MaxCacheSize
    /\ cache[1].key = <<"old", 2>>
    /\ \E k \in DOMAIN calls : calls[k].kind = "provider" /\ cache[Len(cache)].data = calls[k].out


\* Call k is awaiting Open-Meteo and its request fails in this step: the
\* call retries or falls back to the estimate.
OpenMeteoFails(k) ==
    /\ calls[k].api = "openMeteo"
    /\ calls[k].st \in {"fetch", "json"}
    /\ \/ Len(calls'[k].attempts) > Len(calls[k].attempts)
       \/ calls'[k].kind = "estimated"

\* C28: currentApi is never set back from openTopo; a failed Open-Meteo
\* request leaves it at openTopo; and a getElevationProfile call that
\* starts while it is openTopo never asks Open-Meteo.  No call asks
\* Open-Meteo after it asked OpenTopoData.
C28_ProviderOneWay ==
    [][/\ currentApi = "openTopo" => currentApi' = "openTopo"
       /\ \A k \in DOMAIN calls : OpenMeteoFails(k) => currentApi' = "openTopo"
       /\ (Len(calls') > Len(calls) /\ currentApi = "openTopo") =>
             \A j \in DOMAIN calls'[Len(calls')].attempts :
                 calls'[Len(calls')].attempts[j] # "openMeteo"
       /\ \A k \in DOMAIN calls' :
             \A j \in DOMAIN calls'[k].attempts :
                 calls'[k].attempts[j] = "openTopo" =>
                     \A m \in DOMAIN calls'[k].attempts :
                         m > j => calls'[k].attempts[m] # "openMeteo"]_vars

\* C28 witness: the Open-Meteo request of the first call failed and it was
\* retried on OpenTopoData; the second call went to OpenTopoData at once
\* and was served by it.
C28_Witness ==
    /\ currentApi = "openTopo"
    /\ Len(calls) = 2
    /\ calls[1].attempts = <<"openMeteo", "openTopo">>
    /\ calls[2].attempts = <<"openTopo">>
    /\ calls[2].kind = "provider"


\* The terrain analysis calculateLinkBudget hands to calculatePathLoss.
TerrainAnalysisOf(a) ==
    analyzeTerrainPath(a.profile, TxAntennaHeight, TxAntennaHeight, a.distance)

\* C29: in every terrain analysis calculateLinkBudget hands to
\* calculatePathLoss, hasObstructions is true exactly when the obstruction
\* list is not empty, also for a profile of fewer than 2 samples, and the
\* selection of the worst obstruction does not fail on an empty list.
C29_ObstructedHasObstruction ==
    fn = "calculateLinkBudget" =>
        /\ TerrainAnalysisOf(arg).hasObstructions
              <=> (TerrainAnalysisOf(arg).obstructions # <<>>)
        /\ ~calculatePathLoss(arg.distance, TerrainAnalysisOf(arg)).thrown


\* The polylines recorded in linkLines.
RecordedLines == {e.line : e \in ui.linkLines}

\* C30: whatever the interleaving of the page's events with the completions
\* of the link calculations they started, the link lines on the map are
\* exactly the lines recorded in linkLines, so that no pair of transmitters
\* shows more than one line.
C30_MapShowsRecordedLines ==
    /\ ui.onMap = RecordedLines
    /\ \A l1, l2 \in ui.onMap : l1.linkId = l2.linkId => l1 = l2

===========================================================================
